---- MODULE Spec2Model ----
(***************************************************************************)
(* State-machine model of the CoaInference ledger contract                 *)
(* (src/contracts/Inference.sol): the request records, the request         *)
(* counter, the inference-node authority and the model registry, with one  *)
(* action per external function.  Every external function is a pure        *)
(* operator from (storage, msg.sender, arguments) to the outcome of the    *)
(* call: its status ("ok" or the revert reason), the storage after it and  *)
(* the events it emitted.  A call that reverts returns the storage it was  *)
(* given.  The actions apply these operators to the current storage.       *)
(***************************************************************************)
EXTENDS Naturals, Sequences, FiniteSets, TLC

(* ------------------------------ bounds --------------------------------- *)

\* cap on the number of requests that are submitted in one behaviour
MaxRequests == 2

\* longest array handed to addModels / delModels / the constructor
MaxBatch == 2

\* cap on the number of CallFinished events that are collected in one behaviour
MaxFinished == 2

\* largest config.retries of a content store client
MaxRetries == 5

\* longest time, in seconds, that a read of the ledger takes, that a timer
\* fires late, and that passes between a submission and the first read
MaxLatency == 1
MaxResumes == 1
MaxRounds == 1

(* ------------------------------ universe ------------------------------- *)

\* address(0)
ZeroAddress == "0x0"

\* externally owned accounts that send transactions
Accounts == {"0xA1", "0xB2", "0xC3"}

Addresses == Accounts \cup {ZeroAddress}

\* bytes32(0)
ZeroHash == "0x00"

\* bytes32 values handed to requestCall / submitResult
Hashes == {ZeroHash, "0x11", "0x22"}

\* bytes32 values handed to submitResult where its events are collected
FulfilHashes == {ZeroHash, "0x11"}

\* the account that deploys the contract
Deployers == {"0xA1"}

\* the inferenceNode_ handed to the constructor: the deployer itself, another
\* account, or address(0)
InitialNodes == {"0xA1", "0xB2", ZeroAddress}

\* bytes32 values handed to requestCall as promptHash
PromptHashes == {ZeroHash, "0x11"}

\* model names: the keys of the models mapping
ModelNames == {"COA", "GPT", "LLM", "SDXL"}

\* model names used by the transactions of the request ledger (Spec)
LedgerModels == {"COA"}

\* the account that sends requestCall in the behaviours
Requesters == {"0xC3"}

\* model names of the string[] arguments that the properties try out
ProbeModels == {"COA", "GPT"}

\* request ids handed to submitResult: 0, the allocatable ids, one beyond
RequestIds == 0 .. (MaxRequests + 1)

RECURSIVE SeqsUpTo(_, _)
SeqsUpTo(S, n) ==
    IF n = 0 THEN {<<>>}
    ELSE LET shorter == SeqsUpTo(S, n - 1)
         IN  shorter \cup {Append(s, x) : s \in {t \in shorter : Len(t) = n - 1}, x \in S}

\* the string[] arguments
Batches(names) == SeqsUpTo(names, MaxBatch)

(* ------------------------------ state ---------------------------------- *)

VARIABLES
    owner,           \* Ownable._owner
    inferenceNode,   \* _inferenceNode
    requestCounter,  \* _requestCounter
    calls,           \* mapping(uint256 => Call)
    models,          \* mapping(string => bool)
    modelList,       \* string[] modelList
    requestedLog,    \* the CallRequested events emitted so far, in order
    finishedLog,     \* the CallFinished events collected by SpecEvents, in order
    minio,           \* the putObject / getObject call of a MinioClient
    app,             \* the call of a COAApplication
    now,             \* Date.now(), in milliseconds
    relayer,         \* when the inference node fulfils request 1, if ever
    tee,             \* the parseAndVerifyJWT call of a Tee
    peer             \* the call of a second COAApplication

\* the contract and its events
ledgerVars == <<owner, inferenceNode, requestCounter, calls, models, modelList,
                requestedLog, finishedLog>>

\* the application, the clock and the plan of the inference node
engineVars == <<app, now, relayer, tee, peer>>

vars == <<owner, inferenceNode, requestCounter, calls, models, modelList, requestedLog,
          finishedLog, minio, app, now, relayer, tee, peer>>

\* the contract storage as one value
Storage ==
    [owner |-> owner, inferenceNode |-> inferenceNode, requestCounter |-> requestCounter,
     calls |-> calls, models |-> models, modelList |-> modelList]

\* struct Call; a mapping slot that was never written reads as all zeroes
Call(caller, model, promptHash, resultHash, reportHash) ==
    [caller |-> caller, model |-> model, promptHash |-> promptHash,
     resultHash |-> resultHash, reportHash |-> reportHash]

EmptyCall == Call(ZeroAddress, "", ZeroHash, ZeroHash, ZeroHash)

\* the storage of a contract that is being deployed
EmptyStorage ==
    [owner |-> ZeroAddress, inferenceNode |-> ZeroAddress, requestCounter |-> 0,
     calls |-> [id \in RequestIds |-> EmptyCall],
     models |-> [m \in ModelNames |-> FALSE], modelList |-> <<>>]

(* ------------------------------ events --------------------------------- *)

CallRequested(requestId, caller, model, promptHash) ==
    [name |-> "CallRequested", requestId |-> requestId, caller |-> caller,
     model |-> model, promptHash |-> promptHash]

CallFinished(requestId, resultHash, reportHash) ==
    [name |-> "CallFinished", requestId |-> requestId,
     resultHash |-> resultHash, reportHash |-> reportHash]

ModelAdded(model) == [name |-> "ModelAdded", model |-> model]

ModelDeled(model) == [name |-> "ModelDeled", model |-> model]

(* ------------------------------ outcomes ------------------------------- *)

Ok == "ok"
ErrNotInferenceNode == "Inference: not inference node"
ErrNodeEmpty == "Inference: inference node can't be empty"
ErrModelExists == "Inference: model already exists"
ErrModelNoExists == "Inference: model no exists"
ErrModelUnsupported == "Inference: model unsupported"
ErrPromptHashEmpty == "Inference: prompt hash is empty"
ErrInvalidRequestId == "Inference: invalid requestId"
ErrAlreadyFulfilled == "Inference: already fulfilled"
ErrNotOwner == "OwnableUnauthorizedAccount"

\* a call that ran to its end: the storage it leaves and the events it emitted
Done(S, logs) == [status |-> Ok, storage |-> S, logs |-> logs]

\* a require that fails: the call is rolled back to the storage S it started
\* from and nothing is emitted
Revert(S, reason) == [status |-> reason, storage |-> S, logs |-> <<>>]

(* ------------------------------ modifiers ------------------------------ *)

\* faulty variant of onlyInferenceNode: the owner is let through as well
OwnerOrInferenceNode(S, sender) == sender = S.inferenceNode \/ sender = S.owner

onlyInferenceNode(S, sender) == sender = S.inferenceNode

\* faulty variant of onlyOwner: every sender is let through
AnySender(S, sender) == TRUE

onlyOwner(S, sender) == sender = S.owner

(* ------------------------------ registry ------------------------------- *)

\* modelList.push(model)
Push(list, model) == Append(list, model)

\* faulty variant of RemoveFromList: the array is popped without moving the
\* last element into the slot of model
PopOnly(list, model) ==
    IF \E i \in 1 .. Len(list) : list[i] = model
    THEN SubSeq(list, 1, Len(list) - 1)
    ELSE list

\* the removal loop: the first slot holding model is overwritten with the
\* last element and the array is popped
RemoveFromList(list, model) ==
    LET hits == {i \in 1 .. Len(list) : list[i] = model}
    IN  IF hits = {} THEN list
        ELSE LET i == CHOOSE k \in hits : \A h \in hits : k <= h
                 moved == [list EXCEPT ![i] = list[Len(list)]]
             IN  SubSeq(moved, 1, Len(list) - 1)

\* body of the addModels loop for one element; r is the running outcome
addModelsStep(r, model) ==
    IF ~r.storage.models[model]
    THEN Done([r.storage EXCEPT !.models[model] = TRUE,
                                !.modelList = Push(r.storage.modelList, model)],
              Append(r.logs, ModelAdded(model)))
    ELSE r

\* faulty variant of delModelsStep: the flag is cleared and the array is left
\* as it is
delModelsStepFlagOnly(r, model) ==
    IF r.storage.models[model]
    THEN Done([r.storage EXCEPT !.models[model] = FALSE], Append(r.logs, ModelDeled(model)))
    ELSE r

\* body of the delModels loop for one element; r is the running outcome
delModelsStep(r, model) ==
    IF r.storage.models[model]
    THEN Done([r.storage EXCEPT !.models[model] = FALSE,
                                !.modelList = RemoveFromList(r.storage.modelList, model)],
              Append(r.logs, ModelDeled(model)))
    ELSE r

RECURSIVE addModelsLoop(_, _, _)
addModelsLoop(r, models_, i) ==
    IF i > Len(models_) THEN r
    ELSE addModelsLoop(addModelsStep(r, models_[i]), models_, i + 1)

RECURSIVE delModelsLoop(_, _, _)
delModelsLoop(r, models_, i) ==
    IF i > Len(models_) THEN r
    ELSE delModelsLoop(delModelsStep(r, models_[i]), models_, i + 1)

(* ------------------------------ functions ------------------------------ *)

addModels(S, sender, models_) ==
    IF ~onlyOwner(S, sender) THEN Revert(S, ErrNotOwner)
    ELSE addModelsLoop(Done(S, <<>>), models_, 1)

\* Ownable(msg.sender), then the constructor body
constructor(deployer, inferenceNode_, initialModels) ==
    LET owned == [EmptyStorage EXCEPT !.owner = deployer]
    IN  IF inferenceNode_ = ZeroAddress THEN Revert(EmptyStorage, ErrNodeEmpty)
        ELSE addModels([owned EXCEPT !.inferenceNode = inferenceNode_],
                       deployer, initialModels)

setInferenceNode(S, sender, inferenceNode_) ==
    IF ~onlyOwner(S, sender) THEN Revert(S, ErrNotOwner)
    ELSE IF inferenceNode_ = ZeroAddress THEN Revert(S, ErrNodeEmpty)
    ELSE Done([S EXCEPT !.inferenceNode = inferenceNode_], <<>>)

\* faulty variant of addModel: the require on models[model] is missing, so a
\* listed model is pushed and announced again
addModelUnguarded(S, sender, model) ==
    IF ~onlyOwner(S, sender) THEN Revert(S, ErrNotOwner)
    ELSE Done([S EXCEPT !.models[model] = TRUE,
                        !.modelList = Push(S.modelList, model)],
              <<ModelAdded(model)>>)

addModel(S, sender, model) ==
    IF ~onlyOwner(S, sender) THEN Revert(S, ErrNotOwner)
    ELSE IF S.models[model] THEN Revert(S, ErrModelExists)
    ELSE Done([S EXCEPT !.models[model] = TRUE,
                        !.modelList = Push(S.modelList, model)],
              <<ModelAdded(model)>>)

\* faulty variant of delModel: the require on models[model] is missing, so the
\* removal of an absent model runs to its end and emits ModelDeled
delModelUnguarded(S, sender, model) ==
    IF ~onlyOwner(S, sender) THEN Revert(S, ErrNotOwner)
    ELSE Done([S EXCEPT !.models[model] = FALSE,
                        !.modelList = RemoveFromList(S.modelList, model)],
              <<ModelDeled(model)>>)

delModel(S, sender, model) ==
    IF ~onlyOwner(S, sender) THEN Revert(S, ErrNotOwner)
    ELSE IF ~S.models[model] THEN Revert(S, ErrModelNoExists)
    ELSE Done([S EXCEPT !.models[model] = FALSE,
                        !.modelList = RemoveFromList(S.modelList, model)],
              <<ModelDeled(model)>>)

delModels(S, sender, models_) ==
    IF ~onlyOwner(S, sender) THEN Revert(S, ErrNotOwner)
    ELSE delModelsLoop(Done(S, <<>>), models_, 1)

\* faulty variant of ModelSupported: the whitelist is not consulted
AnyModelSupported(S, model) == TRUE

\* require(models[model], ...)
ModelSupported(S, model) == S.models[model]

\* faulty variant of PromptHashNotEmpty: the hash is not examined
AnyPromptHash(promptHash) == TRUE

\* require(promptHash != bytes32(0), ...)
PromptHashNotEmpty(promptHash) == promptHash # ZeroHash

\* faulty variant of PreIncrement: _requestCounter++ yields the old value
PostIncrement(counter) == counter

\* ++_requestCounter: the counter is incremented and the new value is the id
PreIncrement(counter) == counter + 1

requestCall(S, sender, model, promptHash) ==
    IF ~ModelSupported(S, model) THEN Revert(S, ErrModelUnsupported)
    ELSE IF ~PromptHashNotEmpty(promptHash) THEN Revert(S, ErrPromptHashEmpty)
    ELSE LET requestId == PreIncrement(S.requestCounter)
         IN  Done([S EXCEPT !.requestCounter = S.requestCounter + 1,
                            !.calls[requestId] =
                                Call(sender, model, promptHash, ZeroHash, ZeroHash)],
                  <<CallRequested(requestId, sender, model, promptHash)>>)

\* faulty variant of ValidRequestId: the lower bound is missing
NoLowerBound(S, requestId) == requestId <= S.requestCounter

\* require(requestId > 0 && requestId <= _requestCounter, ...)
ValidRequestId(S, requestId) == requestId > 0 /\ requestId <= S.requestCounter

\* faulty variant of NotFulfilled: the whitelist is consulted again
NotFulfilledAndListed(S, call) == call.resultHash = ZeroHash /\ S.models[call.model]

\* require(call.resultHash == bytes32(0), ...); S is the storage call lives in
NotFulfilled(S, call) == call.resultHash = ZeroHash

\* faulty variant of submitResult: an id is fulfilled only after the ids
\* before it
submitResultInOrder(S, sender, requestId, resultHash, reportHash) ==
    IF ~onlyInferenceNode(S, sender) THEN Revert(S, ErrNotInferenceNode)
    ELSE IF ~ValidRequestId(S, requestId) THEN Revert(S, ErrInvalidRequestId)
    ELSE IF ~NotFulfilled(S, S.calls[requestId]) THEN Revert(S, ErrAlreadyFulfilled)
    ELSE IF \E id \in 1 .. requestId - 1 : NotFulfilled(S, S.calls[id])
    THEN Revert(S, ErrInvalidRequestId)
    ELSE Done([S EXCEPT !.calls[requestId].resultHash = resultHash,
                        !.calls[requestId].reportHash = reportHash],
              <<CallFinished(requestId, resultHash, reportHash)>>)

submitResult(S, sender, requestId, resultHash, reportHash) ==
    IF ~onlyInferenceNode(S, sender) THEN Revert(S, ErrNotInferenceNode)
    ELSE IF ~ValidRequestId(S, requestId) THEN Revert(S, ErrInvalidRequestId)
    ELSE IF ~NotFulfilled(S, S.calls[requestId]) THEN Revert(S, ErrAlreadyFulfilled)
    ELSE Done([S EXCEPT !.calls[requestId].resultHash = resultHash,
                        !.calls[requestId].reportHash = reportHash],
              <<CallFinished(requestId, resultHash, reportHash)>>)

\* view functions
getCaller(S, requestId) == S.calls[requestId].caller

getAllModels(S) == S.modelList

\* the events of logs that carry the given name
EventsNamed(logs, name) == SelectSeq(logs, LAMBDA e : e.name = name)

(* ------------------------------ JavaScript values ---------------------- *)

\* a JavaScript value: what typeof says of it, and its content; the content
\* of a string is the sequence of its characters
Str(chars) == [type |-> "string", value |-> chars]

Num(digits) == [type |-> "number", value |-> <<digits>>]

Undefined == [type |-> "undefined", value |-> <<>>]

\* typeof null is "object"
Null == [type |-> "object", value |-> <<"null">>]

\* a Buffer
Buffer(chars) == [type |-> "object", value |-> <<"Buffer">> \o chars]

typeof(v) == v.type

\* !v
Falsy(v) == v \in {Undefined, Null, Str(<<>>), Num("0")}

\* new Error(message); the message is kept as the parts of its template
Error(message) == [type |-> "Error", value |-> message]

\* what reading .message of undefined throws
TypeErrorOfUndefined ==
    [type |-> "TypeError",
     value |-> <<"Cannot read properties of undefined (reading 'message')">>]

\* 'hi' and 'ok'
Hi == <<"h", "i">>

Okay == <<"o", "k">>

\* the arguments that putObject and getObject are called with
Arguments ==
    {Str(Hi), Str(<<"1", "1">>), Str(<<>>), Undefined, Null, Num("0"), Num("42"), Buffer(Hi)}

\* the objects that the content store holds, each under its key
StoredObjects ==
    {[key |-> <<"1", "1">>, content |-> Hi], [key |-> <<"2", "2">>, content |-> Okay]}

\* the keys that the content store answers an upload with: a key whose bytes32
\* is non-zero, the key of all zeroes, and a key that is no hex string
ServerKeys == {<<"1", "1">>, <<"0", "0">>, <<"z", "z">>}

(* ------------------------------ content store client ------------------- *)

\* the values of config.retries
Retries == 0 .. MaxRetries

\* the body of the server's answer when it fails
ServerError == <<"e", "r", "r">>

Min(a, b) == IF a <= b THEN a ELSE b

\* _makeRequest resolved with the response / rejected with the error
Resolved(responseData) == [ok |-> TRUE, value |-> Str(responseData)]

Rejected(error) == [ok |-> FALSE, value |-> error]

\* res.on('end'): a 2xx answer resolves, any other status rejects
onEnd(statusCode, responseData) ==
    IF statusCode >= 200 /\ statusCode < 300
    THEN Resolved(responseData)
    ELSE Rejected(Error(<<"HTTP ", ToString(statusCode), ": ">> \o responseData))

\* req.on('error') and req.on('timeout')
onError == Rejected(Error(<<"Request failed: ", "ECONNRESET">>))

onTimeout == Rejected(Error(<<"Request timeout">>))

\* the answers of the content store to the request of call c: an upload is
\* answered with a key, a download with the object stored under the key or
\* with 404, and either of them with 500
serverAnswers(c) ==
    LET found == {o \in StoredObjects : o.key = c.arg.value}
    IN  (IF c.method = "putObject" THEN {onEnd(200, key) : key \in ServerKeys}
         ELSE IF found = {} THEN {onEnd(404, ServerError)}
         ELSE {onEnd(200, o.content) : o \in found})
        \cup {onEnd(500, ServerError)}

\* the ways the _makeRequest of call c can settle
makeRequest(c) == serverAnswers(c) \cup {onError, onTimeout}

\* no call is running
NoCall ==
    [pc |-> "idle", method |-> "", arg |-> Undefined, retries |-> 0, attempt |-> 0,
     lastError |-> Undefined, responses |-> <<>>, delays |-> <<>>, outcome |-> Undefined]

\* the call has thrown error / has returned value
Thrown(c, error) == [c EXCEPT !.pc = "thrown", !.outcome = error]

Returned(c, value) == [c EXCEPT !.pc = "returned", !.outcome = value]

\* the message that the catch block of the method puts in front
Prefix(method) ==
    IF method = "putObject" THEN "Failed to upload object: " ELSE "Failed to get object: "

\* the catch block of putObject / getObject: error.message of an error that is
\* undefined cannot be read
Catch(c, error) ==
    IF error = Undefined THEN Thrown(c, TypeErrorOfUndefined)
    ELSE Thrown(c, Error(<<Prefix(c.method)>> \o error.value))

\* the test of the for loop: another _makeRequest, or throw lastError
forTest(c) ==
    IF c.attempt <= c.retries THEN [c EXCEPT !.pc = "requesting"]
    ELSE Catch(c, c.lastError)

\* the delay after a failed attempt
backoff(attempt) == Min(1000 * 2 ^ (attempt - 1), 5000)

\* _requestWithRetry is entered
requestWithRetry(c) == forTest([c EXCEPT !.attempt = 1, !.lastError = Undefined])

\* the awaited _makeRequest has settled with r
onSettled(c, r) ==
    LET d == [c EXCEPT !.responses = Append(c.responses, r)]
    IN  IF r.ok THEN Returned(d, r.value)
        ELSE LET e == [d EXCEPT !.lastError = r.value]
             IN  IF c.attempt = c.retries THEN Catch(e, e.lastError)
                 ELSE [e EXCEPT !.pc = "sleeping",
                                !.delays = Append(c.delays, backoff(c.attempt))]

\* the setTimeout of the backoff has fired: attempt++ and the loop test
onTimer(c) == forTest([c EXCEPT !.attempt = c.attempt + 1])

\* faulty variant of NonEmptyString: the empty string is let through
AnyString(v) == typeof(v) = "string"

\* the precondition of putObject and getObject
NonEmptyString(v) == ~(Falsy(v) \/ typeof(v) # "string")

putObject(content, retries) ==
    LET c == [NoCall EXCEPT !.method = "putObject", !.arg = content, !.retries = retries]
    IN  IF ~NonEmptyString(content)
        THEN Thrown(c, Error(<<"Content must be a non-empty string">>))
        ELSE requestWithRetry(c)

getObject(key, retries) ==
    LET c == [NoCall EXCEPT !.method = "getObject", !.arg = key, !.retries = retries]
    IN  IF ~NonEmptyString(key)
        THEN Thrown(c, Error(<<"Key must be a non-empty string">>))
        ELSE requestWithRetry(c)

(* ------------------------------ application --------------------------- *)

\* milliseconds of a second
Second == 1000

\* retries of DEFAULT_CONFIG, the configuration of the application's client
DefaultRetries == 3

\* the defaults of waitForInferenceResult
DefaultMaxWaitTime == 5 * 60 * 1000

DefaultCheckInterval == 10 * 1000

\* a uint256 as ethers hands it to the application
BigInt(n) == [type |-> "bigint", value |-> n]

\* a bytes32 as ethers hands it to the application: '0x' and the hex digits
hexlify(hash) ==
    CASE hash = "0x00" -> <<"0", "x", "0", "0">>
      [] hash = "0x11" -> <<"0", "x", "1", "1">>
      [] hash = "0x22" -> <<"0", "x", "2", "2">>

\* ethers.ZeroHash
EthersZeroHash == hexlify(ZeroHash)

\* hash.startsWith(prefix)
startsWith(hash, prefix) ==
    Len(hash) >= Len(prefix) /\ SubSeq(hash, 1, Len(prefix)) = prefix

\* hash.slice(n)
slice(hash, n) == SubSeq(hash, n + 1, Len(hash))

\* faulty variant of strip0x: the prefix is kept
keep0x(hash) == hash

strip0x(hash) == IF startsWith(hash, <<"0", "x">>) THEN slice(hash, 2) ELSE hash

\* what reading calls(requestId) of storage S resolves with
getRequestDetails(S, requestId) ==
    LET call == S.calls[requestId.value]
    IN  [caller |-> call.caller, model |-> call.model, promptHash |-> hexlify(call.promptHash),
         resultHash |-> hexlify(call.resultHash), reportHash |-> hexlify(call.reportHash)]

\* what a failed read of the ledger rejects with
RpcError == Error(<<"could not coalesce error">>)

\* what encoding a requestId that is no number throws
InvalidArgument == Error(<<"invalid BigNumberish value">>)

\* the contract at contractConfig.inferenceAddress: this CoaInference, or
\* another contract
CoaInference == "CoaInference"

OtherContract == "another contract"

\* no receipt yet / the receipt of a mined transaction with its logs
NoReceipt == [mined |-> FALSE, logs |-> <<>>]

Receipt(logs) == [mined |-> TRUE, logs |-> logs]

\* no call of the application is running
NoRun ==
    [pc |-> "idle", method |-> "", inferenceAddress |-> CoaInference,
     prompt |-> Undefined, model |-> "", waitForResult |-> FALSE,
     objectKey |-> Undefined, promptHash |-> <<>>, receipt |-> NoReceipt,
     requestId |-> Undefined, maxWaitTime |-> 0, checkInterval |-> 0,
     startTime |-> 0, since |-> 0, polls |-> 0, resumes |-> 0,
     details |-> [resultHash |-> <<>>, reportHash |-> <<>>],
     result |-> Undefined, outcome |-> Undefined]

\* new Error(`Timeout waiting for inference result after ${maxWaitTime / 1000} seconds`)
TimeoutError(maxWaitTime) ==
    Error(<<"Timeout waiting for inference result after ",
            ToString(maxWaitTime \div 1000), " seconds">>)

\* faulty variant of WithinMaxWait: the bound is included
WithinMaxWaitInclusive(a, t) == t - a.startTime <= a.maxWaitTime

\* the test of the while loop at time t
WithinMaxWait(a, t) == t - a.startTime < a.maxWaitTime

\* the while loop at time t: another read of the ledger, or the timeout
whileTest(a, t) ==
    IF WithinMaxWait(a, t) THEN [a EXCEPT !.pc = "getRequestDetails", !.since = t]
    ELSE Thrown(a, TimeoutError(a.maxWaitTime))

\* waitForInferenceResult is called at time t by the run a
waitForInferenceResult(a, requestId, maxWaitTime, checkInterval, t) ==
    whileTest([a EXCEPT !.requestId = requestId, !.maxWaitTime = maxWaitTime,
                        !.checkInterval = checkInterval, !.startTime = t], t)

\* faulty variant of BothHashesSet: one hash is enough
EitherHashSet(details) ==
    details.resultHash # EthersZeroHash \/ details.reportHash # EthersZeroHash

\* the result is ready
BothHashesSet(details) ==
    details.resultHash # EthersZeroHash /\ details.reportHash # EthersZeroHash

\* faulty variant of onDetails: the loop waits whatever the hashes are
onDetailsAlwaysWaits(a, details, t) ==
    [a EXCEPT !.polls = a.polls + 1, !.pc = "setTimeout", !.since = t]

\* the read of the ledger has resolved with details at time t: the download
\* of the result begins, or the wait for the next read
onDetails(a, details, t) ==
    LET b == [a EXCEPT !.polls = a.polls + 1]
    IN  IF BothHashesSet(details)
        THEN [b EXCEPT !.pc = "getResult",
                       !.details = [resultHash |-> details.resultHash,
                                    reportHash |-> details.reportHash]]
        ELSE [b EXCEPT !.pc = "setTimeout", !.since = t]

\* the getObject of the result has ended as call c
onResult(a, c) ==
    IF c.pc = "returned" THEN [a EXCEPT !.pc = "getReport", !.result = c.outcome]
    ELSE Thrown(a, c.outcome)

\* the getObject of the report has ended as call c
onReport(a, c) ==
    IF c.pc = "returned"
    THEN Returned(a, [requestId |-> a.requestId, resultHash |-> a.details.resultHash,
                      reportHash |-> a.details.reportHash, result |-> a.result,
                      report |-> c.outcome])
    ELSE Thrown(a, c.outcome)

\* execute is called
execute(prompt, model, waitForResult, inferenceAddress) ==
    [NoRun EXCEPT !.pc = "approveTokens", !.method = "execute",
                  !.inferenceAddress = inferenceAddress, !.prompt = prompt,
                  !.model = model, !.waitForResult = waitForResult]

\* what approveTokens throws when the allowance or the approval fails
ApprovalError == Error(<<"Token approval failed">>)

\* approveTokens has ended: the upload of the prompt is next
onApproved(a, approved) ==
    IF approved THEN [a EXCEPT !.pc = "uploadPrompt"] ELSE Thrown(a, ApprovalError)

\* the putObject of uploadPrompt has ended as call c: callInference is next,
\* with the read of models(model)
onUploaded(a, c) ==
    IF c.pc = "returned" THEN [a EXCEPT !.pc = "models", !.objectKey = c.outcome]
    ELSE Thrown(a, c.outcome)

\* the read of models(model) has resolved
onModels(a, isModelSupported) ==
    IF ~isModelSupported THEN Thrown(a, Error(<<"Model ", a.model, " is not supported">>))
    ELSE [a EXCEPT !.pc = "requestCall", !.promptHash = <<"0", "x">> \o a.objectKey.value]

\* the text is a bytes32 that ethers can encode
isBytes32(text) == \E hash \in Hashes : hexlify(hash) = text

toBytes32(text) == CHOOSE hash \in Hashes : hexlify(hash) = text

\* what a reverted transaction rejects with
CallException(reason) == Error(<<"execution reverted: ", reason>>)

\* faulty variant of requestIdOf: the id is not read from the event
requestIdOfFirstRequest(logs) == BigInt(1)

\* receipt.logs.find(...) and the requestId that is parsed from the event
requestIdOf(logs) ==
    LET found == EventsNamed(logs, "CallRequested")
    IN  IF found # <<>> THEN BigInt(found[1].requestId) ELSE Undefined

\* faulty variant of onMined: a revert is not thrown
onMinedIgnoringRevert(a, r, t) ==
    LET b == [a EXCEPT !.receipt = Receipt(r.logs), !.requestId = requestIdOf(r.logs)]
    IN  IF a.waitForResult
        THEN waitForInferenceResult(b, b.requestId, DefaultMaxWaitTime,
                                    DefaultCheckInterval, t)
        ELSE Returned(b, [requestId |-> b.requestId, promptHash |-> b.promptHash])

\* the requestCall transaction with outcome r was mined at time t: a revert
\* is thrown; otherwise callInference returns, and execute waits for the
\* result or returns
onMined(a, r, t) ==
    IF r.status # Ok THEN Thrown(a, CallException(r.status))
    ELSE LET b == [a EXCEPT !.receipt = Receipt(r.logs), !.requestId = requestIdOf(r.logs)]
         IN  IF a.waitForResult
             THEN waitForInferenceResult(b, b.requestId, DefaultMaxWaitTime,
                                         DefaultCheckInterval, t)
             ELSE Returned(b, [requestId |-> b.requestId, promptHash |-> b.promptHash])

\* the inference node does not fulfil request 1 / fulfils it at time t
Never == [due |-> FALSE, at |-> 0]

At(t) == [due |-> TRUE, at |-> t]

\* the ways a putObject or getObject call c can end, when its requests and
\* timers settle
RECURSIVE Ends(_)
Ends(c) ==
    IF c.pc = "requesting" THEN UNION {Ends(onSettled(c, r)) : r \in makeRequest(c)}
    ELSE IF c.pc = "sleeping" THEN Ends(onTimer(c))
    ELSE {c}

\* how the call c can end: by returning a value or by throwing an error
Settled(c) == {[pc |-> e.pc, outcome |-> e.outcome] : e \in Ends(c)}

(* ------------------------------ attestation verifier ------------------ *)

\* text.split(separator), for a separator of one character
RECURSIVE split(_, _)
split(text, separator) ==
    IF \A i \in 1 .. Len(text) : text[i] # separator THEN <<text>>
    ELSE LET i == CHOOSE j \in 1 .. Len(text) :
                      text[j] = separator /\ \A k \in 1 .. j - 1 : text[k] # separator
         IN  <<SubSeq(text, 1, i - 1)>> \o split(SubSeq(text, i + 1, Len(text)), separator)

\* const [headerB64, payloadB64, signatureB64] = parts: the element at index
\* i, undefined beyond the end
element(parts, i) == IF i <= Len(parts) THEN Str(parts[i]) ELSE Undefined

\* what JSON.parse throws
SyntaxError == [type |-> "SyntaxError", value |-> <<"Unexpected token">>]

\* what token.split throws when token is undefined
TypeErrorOfSplit ==
    [type |-> "TypeError", value |-> <<"Cannot read properties of undefined (reading 'split')">>]

\* JSON.parse(Buffer.from(headerB64, 'base64url').toString('utf8')): the
\* headers that the segments A .. F encode; any other segment is no JSON
Header(kid, alg) == [type |-> "object", kid |-> kid, alg |-> alg]

parseHeader(headerB64) ==
    CASE headerB64 = <<"A">> -> Header(Str(<<"k", "1">>), Str(<<"ES256">>))
      [] headerB64 = <<"B">> -> Header(Str(<<"k", "9">>), Str(<<"ES256">>))
      [] headerB64 = <<"C">> -> Header(Undefined, Str(<<"ES256">>))
      [] headerB64 = <<"D">> -> Header(Str(<<"k", "1">>), Undefined)
      [] headerB64 = <<"E">> -> Header(Str(<<>>), Str(<<"ES256">>))
      [] headerB64 = <<"F">> -> Header(Str(<<"k", "1">>), Str(<<"none">>))
      [] OTHER -> SyntaxError

\* JSON.parse(Buffer.from(payloadB64, 'base64url').toString('utf8')): the
\* segment P encodes a payload; any other segment is no JSON
Payload == [type |-> "object", iat |-> Num("1")]

parsePayload(payloadB64) == IF payloadB64 = <<"P">> THEN Payload ELSE SyntaxError

\* a key of the key set: its kid and its key material
Jwk(kid, material) == [type |-> "object", kid |-> Str(kid), material |-> material]

\* the signature segment that the key material makes for a header and a
\* payload: S by material m1, T by material m2
sign(material, headerB64, payloadB64) == IF material = "m1" THEN <<"S">> ELSE <<"T">>

\* the key sets that the JWKS url serves: both keys, k1 rotated out, and k1
\* with the material of k2
KeySets ==
    {<<Jwk(<<"k", "1">>, "m1"), Jwk(<<"k", "2">>, "m2")>>,
     <<Jwk(<<"k", "2">>, "m2")>>,
     <<Jwk(<<"k", "2">>, "m2"), Jwk(<<"k", "1">>, "m2")>>}

\* the ways the fetch of the JWKS url settles: a 200 with a key set, a 500,
\* or a rejection
Response(status, keys) == [settled |-> "resolved", status |-> status, keys |-> keys]

FetchRejected == [settled |-> "rejected", status |-> 0, keys |-> <<>>]

NoResponse == [settled |-> "pending", status |-> 0, keys |-> <<>>]

fetch == {Response(200, keys) : keys \in KeySets} \cup {Response(500, <<>>), FetchRejected}

\* jwks.keys.find(k => k.kid === kid)
find(keys, kid) ==
    LET matching == {i \in 1 .. Len(keys) : keys[i].kid = kid}
    IN  IF matching = {} THEN Undefined
        ELSE keys[CHOOSE i \in matching : \A j \in matching : i <= j]

\* getJWKFromJWKS when its fetch has settled with response: the key, or the
\* error that it throws
getJWKFromJWKS(response, kid) ==
    IF response.settled = "rejected" THEN Error(<<"getaddrinfo ENOTFOUND">>)
    ELSE IF ~(response.status >= 200 /\ response.status < 300)
    THEN Error(<<"Failed to fetch JWKS: ", ToString(response.status)>>)
    ELSE LET jwk == find(response.keys, kid)
         IN  IF jwk.type = "undefined"
             THEN Error(<<"JWK with kid ">> \o kid.value \o <<" not found">>)
             ELSE jwk

\* importJWK(jwk, alg): the key, or the error for an algorithm that it does
\* not support
importJWK(jwk, alg) ==
    IF alg = Str(<<"ES256">>) THEN [type |-> "key", material |-> jwk.material]
    ELSE [type |-> "TypeError", value |-> <<"Invalid or unsupported \"alg\" (Algorithm) header value">>]

\* jwtVerify(token, key, ...): the compact form has exactly three segments
\* and its signature is the one that the key makes
jwtVerify(token, key) ==
    LET parts == split(token, ".")
    IN  IF Len(parts) # 3 THEN Error(<<"Invalid Compact JWS">>)
        ELSE IF parts[3] # sign(key.material, parts[1], parts[2])
        THEN Error(<<"signature verification failed">>)
        ELSE [type |-> "result", payload |-> parsePayload(parts[2])]

\* no verification is running
NoVerification ==
    [pc |-> "idle", token |-> Undefined, header |-> Undefined, fetches |-> 0,
     response |-> NoResponse, jwk |-> Undefined, outcome |-> Undefined]

\* what parseAndVerifyJWT returns: when the signature verifies, when it does
\* not, and from its outer catch block
Verified(v, payload) ==
    [v EXCEPT !.pc = "returned",
              !.outcome = [header |-> v.header, payload |-> payload, signatureValid |-> TRUE,
                           error |-> Undefined]]

NotVerified(v, e) ==
    [v EXCEPT !.pc = "returned",
              !.outcome = [header |-> v.header, payload |-> Undefined,
                           signatureValid |-> FALSE, error |-> Str(e.value)]]

Caught(v, error) ==
    [v EXCEPT !.pc = "returned",
              !.outcome = [header |-> Undefined, payload |-> Undefined,
                           signatureValid |-> FALSE, error |-> Str(error.value)]]

\* parseAndVerifyJWT(token, jwksUrl) up to its await of getJWKFromJWKS
parseAndVerifyJWT(token) ==
    LET v == [NoVerification EXCEPT !.token = token]
    IN  IF typeof(token) # "string" THEN Caught(v, TypeErrorOfSplit)
        ELSE LET parts == split(token.value, ".")
                 headerB64 == element(parts, 1)
                 payloadB64 == element(parts, 2)
                 signatureB64 == element(parts, 3)
             IN  IF Falsy(headerB64) \/ Falsy(payloadB64) \/ Falsy(signatureB64)
                 THEN Caught(v, Error(<<"Invalid JWT format">>))
                 ELSE LET header == parseHeader(headerB64.value)
                      IN  IF header.type # "object" THEN Caught(v, header)
                          ELSE IF Falsy(header.kid) \/ Falsy(header.alg)
                          THEN Caught(v, Error(<<"Missing kid or alg in JWT header">>))
                          ELSE [v EXCEPT !.pc = "getJWKFromJWKS", !.header = header,
                                         !.fetches = 1]

\* the fetch of getJWKFromJWKS has settled with response: the key is found,
\* or its error is caught
onJWK(v, response) ==
    LET jwk == getJWKFromJWKS(response, v.header.kid)
        w == [v EXCEPT !.response = response]
    IN  IF jwk.type # "object" THEN Caught(w, jwk)
        ELSE [w EXCEPT !.pc = "importJWK", !.jwk = jwk]

\* importJWK, the parse of the payload and jwtVerify
onImport(v) ==
    LET key == importJWK(v.jwk, v.header.alg)
        payloadUnverified == parsePayload(split(v.token.value, ".")[2])
    IN  IF key.type # "key" THEN Caught(v, key)
        ELSE IF payloadUnverified.type # "object" THEN Caught(v, payloadUnverified)
        ELSE LET verified == jwtVerify(v.token.value, key)
             IN  IF verified.type = "result" THEN Verified(v, verified.payload)
                 ELSE NotVerified(v, verified)

(* ------------------------------ behaviours ----------------------------- *)

\* the storage becomes S
Store(S) ==
    /\ owner' = S.owner
    /\ inferenceNode' = S.inferenceNode
    /\ requestCounter' = S.requestCounter
    /\ calls' = S.calls
    /\ models' = S.models
    /\ modelList' = S.modelList

\* a transaction is mined: the call's storage is committed (a reverted call
\* commits the storage it started from) and the CallRequested events it
\* emitted are appended to their log
Mine(r) ==
    /\ Store(r.storage)
    /\ requestedLog' = requestedLog \o EventsNamed(r.logs, "CallRequested")
    /\ UNCHANGED <<finishedLog, minio, engineVars>>

\* as Mine, for a transaction that the application sent and awaits
MineAwaited(r) ==
    /\ Store(r.storage)
    /\ requestedLog' = requestedLog \o EventsNamed(r.logs, "CallRequested")
    /\ UNCHANGED finishedLog

\* as Mine, and the CallFinished events of the transaction are collected too
MineCollecting(r) ==
    /\ Store(r.storage)
    /\ requestedLog' = requestedLog \o EventsNamed(r.logs, "CallRequested")
    /\ finishedLog' = finishedLog \o EventsNamed(r.logs, "CallFinished")
    /\ UNCHANGED <<minio, engineVars>>

Deploy(names) ==
    \E deployer \in Deployers, inferenceNode_ \in InitialNodes, initialModels \in Batches(names) :
        LET r == constructor(deployer, inferenceNode_, initialModels)
        IN  /\ r.status = Ok
            /\ owner = r.storage.owner
            /\ inferenceNode = r.storage.inferenceNode
            /\ requestCounter = r.storage.requestCounter
            /\ calls = r.storage.calls
            /\ models = r.storage.models
            /\ modelList = r.storage.modelList
            /\ requestedLog = <<>>
            /\ finishedLog = <<>>
            /\ minio = NoCall
            /\ app = NoRun
            /\ now = 0
            /\ relayer = Never
            /\ tee = NoVerification
            /\ peer = NoRun

SetInferenceNodeTx ==
    \E sender \in Accounts, inferenceNode_ \in Addresses :
        Mine(setInferenceNode(Storage, sender, inferenceNode_))

AddModelTx(names) ==
    \E sender \in Accounts, model \in names : Mine(addModel(Storage, sender, model))

AddModelsTx(names) ==
    \E sender \in Accounts, models_ \in Batches(names) :
        Mine(addModels(Storage, sender, models_))

DelModelTx(names) ==
    \E sender \in Accounts, model \in names : Mine(delModel(Storage, sender, model))

DelModelsTx(names) ==
    \E sender \in Accounts, models_ \in Batches(names) :
        Mine(delModels(Storage, sender, models_))

\* the number of requests of one behaviour is capped at MaxRequests
RequestCallTx(names) ==
    \E sender \in Requesters, model \in names, promptHash \in PromptHashes :
        LET r == requestCall(Storage, sender, model, promptHash)
        IN  /\ r.status = Ok => requestCounter < MaxRequests
            /\ Mine(r)

SubmitResultTx ==
    \E sender \in Accounts, requestId \in RequestIds,
       resultHash \in Hashes, reportHash \in Hashes :
        Mine(submitResult(Storage, sender, requestId, resultHash, reportHash))

\* the request ledger: every external function, over the models of LedgerModels
Init == Deploy(LedgerModels)

Next ==
    \/ SetInferenceNodeTx
    \/ AddModelTx(LedgerModels)
    \/ AddModelsTx(LedgerModels)
    \/ DelModelTx(LedgerModels)
    \/ DelModelsTx(LedgerModels)
    \/ RequestCallTx(LedgerModels)
    \/ SubmitResultTx

Spec == Init /\ [][Next]_vars

\* the administration of the contract: the onlyOwner functions, over all
\* model names
InitAdmin == Deploy(ModelNames)

NextAdmin ==
    \/ SetInferenceNodeTx
    \/ AddModelTx(ModelNames)
    \/ AddModelsTx(ModelNames)
    \/ DelModelTx(ModelNames)
    \/ DelModelsTx(ModelNames)

SpecAdmin == InitAdmin /\ [][NextAdmin]_vars

\* submitResult with its CallFinished event collected; the number of collected
\* events of one behaviour is capped at MaxFinished
SubmitResultCollectedTx ==
    \E sender \in Accounts, requestId \in RequestIds,
       resultHash \in FulfilHashes, reportHash \in FulfilHashes :
        LET r == submitResult(Storage, sender, requestId, resultHash, reportHash)
        IN  /\ r.status = Ok => Len(finishedLog) < MaxFinished
            /\ MineCollecting(r)

\* the ledger writes and their events: requestCall and submitResult, with both
\* kinds of event collected
InitEvents == Deploy(LedgerModels)

NextEvents ==
    \/ RequestCallTx(LedgerModels)
    \/ SubmitResultCollectedTx

SpecEvents == InitEvents /\ [][NextEvents]_vars

\* a client calls putObject / getObject
PutObjectCall ==
    /\ minio.pc = "idle"
    /\ \E content \in Arguments, retries \in Retries : minio' = putObject(content, retries)
    /\ UNCHANGED <<ledgerVars, engineVars>>

GetObjectCall ==
    /\ minio.pc = "idle"
    /\ \E key \in Arguments, retries \in Retries : minio' = getObject(key, retries)
    /\ UNCHANGED <<ledgerVars, engineVars>>

\* the _makeRequest that the call awaits settles
MakeRequestSettles ==
    /\ minio.pc = "requesting"
    /\ \E r \in makeRequest(minio) : minio' = onSettled(minio, r)
    /\ UNCHANGED <<ledgerVars, engineVars>>

\* the backoff timer that the call awaits fires
TimerFires ==
    /\ minio.pc = "sleeping"
    /\ minio' = onTimer(minio)
    /\ UNCHANGED <<ledgerVars, engineVars>>

\* the content store client: one putObject or getObject call
InitStore == Deploy({})

NextStore ==
    \/ PutObjectCall
    \/ GetObjectCall
    \/ MakeRequestSettles
    \/ TimerFires

SpecStore == InitStore /\ [][NextStore]_vars

\* the storage is S
StorageIs(S) ==
    /\ owner = S.owner
    /\ inferenceNode = S.inferenceNode
    /\ requestCounter = S.requestCounter
    /\ calls = S.calls
    /\ models = S.models
    /\ modelList = S.modelList

\* maxWaitTime and checkInterval of the calls of waitForInferenceResult
PollSettings ==
    {<<3 * Second, 1 * Second>>, <<3 * Second, 2 * Second>>,
     <<DefaultMaxWaitTime, DefaultCheckInterval>>}

\* the id that waitForInferenceResult is called with: that of the request
PolledIds == {BigInt(1)}

\* the hashes that the inference node fulfils with
NodeHashes == {"0x11", "0x22"}

\* the download of the object behind hash by the application's client
download(hash) == getObject(Str(strip0x(hash)), DefaultRetries)

\* waitForInferenceResult is called with one of the settings
CallWith(settings) ==
    /\ app.pc = "idle"
    /\ \E requestId \in PolledIds, setting \in settings :
          app' = waitForInferenceResult([NoRun EXCEPT !.method = "waitForInferenceResult"],
                                        requestId, setting[1], setting[2], now)
    /\ UNCHANGED <<ledgerVars, minio, now, relayer, tee, peer>>

WaitForInferenceResultCall == CallWith(PollSettings)

\* the read of the ledger that the loop awaits resolves
GetRequestDetailsResolves ==
    /\ app.pc = "getRequestDetails"
    /\ app.requestId.type = "bigint"
    /\ app' = onDetails(app, getRequestDetails(Storage, app.requestId), now)
    /\ minio' = IF app'.pc = "getResult" THEN download(app'.details.resultHash) ELSE minio
    /\ UNCHANGED <<ledgerVars, now, relayer, tee, peer>>

\* the read of the ledger that the loop awaits rejects: the requestId cannot
\* be encoded, or the provider fails
GetRequestDetailsRejects ==
    /\ app.pc = "getRequestDetails"
    /\ app' = Thrown([app EXCEPT !.polls = app.polls + 1],
                     IF app.requestId.type = "bigint" THEN RpcError ELSE InvalidArgument)
    /\ UNCHANGED <<ledgerVars, minio, now, relayer, tee, peer>>

\* the timer of the loop fires, not before checkInterval has passed
SetTimeoutFires ==
    /\ app.pc = "setTimeout"
    /\ now >= app.since + app.checkInterval
    /\ app' = whileTest(app, now)
    /\ UNCHANGED <<ledgerVars, minio, now, relayer, tee, peer>>

\* the getObject of the result has ended
GetResultEnds ==
    /\ app.pc = "getResult"
    /\ minio.pc \in {"returned", "thrown"}
    /\ app' = onResult(app, minio)
    /\ minio' = IF app'.pc = "getReport" THEN download(app.details.reportHash) ELSE NoCall
    /\ UNCHANGED <<ledgerVars, now, relayer, tee, peer>>

\* the getObject of the report has ended
GetReportEnds ==
    /\ app.pc = "getReport"
    /\ minio.pc \in {"returned", "thrown"}
    /\ app' = onReport(app, minio)
    /\ minio' = NoCall
    /\ UNCHANGED <<ledgerVars, now, relayer, tee, peer>>

\* request 1 is pending
Pending ==
    /\ requestCounter >= 1
    /\ calls[1].resultHash = ZeroHash
    /\ calls[1].reportHash = ZeroHash

\* a second passes; time does not pass the moment at which the inference node
\* fulfils, nor the latest moment of the read or of the timer that the
\* application awaits
Tick ==
    /\ app.pc \in {"idle", "getRequestDetails", "setTimeout"}
    /\ app.pc = "idle" => now < MaxLatency * Second
    /\ app.pc = "getRequestDetails" => now < app.since + MaxLatency * Second
    /\ app.pc = "setTimeout" => now < app.since + app.checkInterval + MaxLatency * Second
    /\ ~(relayer.due /\ now >= relayer.at /\ Pending)
    /\ now' = now + Second
    /\ UNCHANGED <<ledgerVars, minio, app, relayer, tee, peer>>

\* the inference node fulfils request 1 at its time
FulfilDue ==
    /\ relayer.due
    /\ now >= relayer.at
    /\ Pending
    /\ \E resultHash \in NodeHashes, reportHash \in NodeHashes :
          Mine(submitResult(Storage, inferenceNode, 1, resultHash, reportHash))

\* the ledger after the deployment and the submission of request 1
LedgerWithRequest ==
    requestCall(constructor("0xA1", "0xB2", <<"COA">>).storage, "0xC3", "COA", "0x11")

\* the polling of a request that was submitted at time 0 and that the
\* inference node fulfils 15 seconds later, or never
InitPoll ==
    /\ StorageIs(LedgerWithRequest.storage)
    /\ requestedLog = LedgerWithRequest.logs
    /\ finishedLog = <<>>
    /\ minio = NoCall
    /\ app = NoRun
    /\ now = 0
    /\ relayer \in {Never, At(15 * Second)}
    /\ tee = NoVerification
    /\ peer = NoRun

NextPoll ==
    \/ WaitForInferenceResultCall
    \/ GetRequestDetailsResolves
    \/ GetRequestDetailsRejects
    \/ SetTimeoutFires
    \/ GetResultEnds
    \/ GetReportEnds
    \/ MakeRequestSettles
    \/ TimerFires
    \/ Tick
    \/ FulfilDue

SpecPoll == InitPoll /\ [][NextPoll]_vars

\* every read, timer and request that the application awaits settles, time
\* passes, and the inference node acts at its time
FairPoll ==
    /\ WF_vars(GetRequestDetailsResolves \/ GetRequestDetailsRejects)
    /\ WF_vars(SetTimeoutFires)
    /\ WF_vars(GetResultEnds)
    /\ WF_vars(GetReportEnds)
    /\ WF_vars(MakeRequestSettles)
    /\ WF_vars(TimerFires)
    /\ WF_vars(Tick)
    /\ WF_vars(FulfilDue)

SpecPollFair == SpecPoll /\ FairPoll

\* the call of waitForInferenceResult has thrown its timeout error
TimedOut == app.pc = "thrown" /\ app.outcome = TimeoutError(app.maxWaitTime)

\* after a timeout the caller calls waitForInferenceResult again, with the
\* same requestId, maxWaitTime and checkInterval
ResumeCall ==
    /\ TimedOut
    /\ app.resumes < MaxResumes
    /\ app' = waitForInferenceResult([NoRun EXCEPT !.method = "waitForInferenceResult",
                                                   !.resumes = app.resumes + 1],
                                     app.requestId, app.maxWaitTime, app.checkInterval, now)
    /\ UNCHANGED <<ledgerVars, minio, now, relayer, tee, peer>>

\* a second passes between the timeout and the next call, up to the moment at
\* which the inference node fulfils and MaxLatency seconds more
TickBetweenCalls ==
    /\ TimedOut
    /\ app.resumes < MaxResumes
    /\ relayer.due
    /\ now < relayer.at + MaxLatency * Second
    /\ ~(now >= relayer.at /\ Pending)
    /\ now' = now + Second
    /\ UNCHANGED <<ledgerVars, minio, app, relayer, tee, peer>>

\* the settings of a call that ends before the inference node fulfils
ShortSettings == {<<3 * Second, 1 * Second>>, <<3 * Second, 2 * Second>>}

ShortWaitCall == CallWith(ShortSettings)

\* the polling of the request, called again after a timeout
NextResume ==
    \/ ShortWaitCall
    \/ ResumeCall
    \/ TickBetweenCalls
    \/ GetRequestDetailsResolves
    \/ GetRequestDetailsRejects
    \/ SetTimeoutFires
    \/ GetResultEnds
    \/ GetReportEnds
    \/ MakeRequestSettles
    \/ TimerFires
    \/ Tick
    \/ FulfilDue

SpecResume == InitPoll /\ [][NextResume]_vars

SpecResumeFair == SpecResume /\ FairPoll /\ WF_vars(ResumeCall) /\ WF_vars(TickBetweenCalls)

\* the texts between the dots of the tokens
Segments == {<<"A">>, <<"B">>, <<"C">>, <<"D">>, <<"E">>, <<"F">>, <<"X">>,
             <<"P">>, <<"Q">>, <<"S">>, <<"T">>, <<>>}

\* the segments joined by dots
RECURSIVE join(_)
join(parts) ==
    IF Len(parts) = 0 THEN <<>>
    ELSE IF Len(parts) = 1 THEN parts[1]
    ELSE parts[1] \o <<".">> \o join(Tail(parts))

\* the tokens that parseAndVerifyJWT is called with: one to four segments,
\* of which the first is a header, the second a payload and the rest
\* signatures, empty or not; and undefined
Tokens ==
    {Str(join(parts)) : parts \in
        UNION {[1 .. n -> Segments] : n \in 1 .. 4}} \cup {Undefined}

ParseAndVerifyJWTCall ==
    /\ tee.pc = "idle"
    /\ \E token \in Tokens : tee' = parseAndVerifyJWT(token)
    /\ UNCHANGED <<ledgerVars, minio, app, now, relayer, peer>>

\* the fetch that getJWKFromJWKS awaits settles
GetJWKFromJWKSSettles ==
    /\ tee.pc = "getJWKFromJWKS"
    /\ \E response \in fetch : tee' = onJWK(tee, response)
    /\ UNCHANGED <<ledgerVars, minio, app, now, relayer, peer>>

\* the key is imported and the signature is verified
ImportAndVerify ==
    /\ tee.pc = "importJWK"
    /\ tee' = onImport(tee)
    /\ UNCHANGED <<ledgerVars, minio, app, now, relayer, peer>>

\* the attestation verifier: one parseAndVerifyJWT call
InitTee == Deploy({})

NextTee ==
    \/ ParseAndVerifyJWTCall
    \/ GetJWKFromJWKSSettles
    \/ ImportAndVerify

SpecTee == InitTee /\ [][NextTee]_vars

\* the hash pairs of which exactly one is zero
HalfHashes == {<<ZeroHash, "0x11">>, <<"0x11", ZeroHash>>}

\* the inference node sends, at its time, a submitResult for request 1 in
\* which one of the hashes is zero
FulfilHalf ==
    /\ relayer.due
    /\ now >= relayer.at
    /\ Pending
    /\ \E hashes \in HalfHashes :
          Mine(submitResult(Storage, inferenceNode, 1, hashes[1], hashes[2]))

\* the inference node sends a submitResult with both hashes for request 1,
\* of which it has stored a reportHash only
FulfilRest ==
    /\ calls[1].resultHash = ZeroHash
    /\ calls[1].reportHash # ZeroHash
    /\ \E resultHash \in NodeHashes, reportHash \in NodeHashes :
          Mine(submitResult(Storage, inferenceNode, 1, resultHash, reportHash))

\* the polling of a request of which the inference node stores one hash
\* after a second
InitHalf ==
    /\ StorageIs(LedgerWithRequest.storage)
    /\ requestedLog = LedgerWithRequest.logs
    /\ finishedLog = <<>>
    /\ minio = NoCall
    /\ app = NoRun
    /\ now = 0
    /\ relayer = At(1 * Second)
    /\ tee = NoVerification
    /\ peer = NoRun

NextHalf ==
    \/ ShortWaitCall
    \/ GetRequestDetailsResolves
    \/ GetRequestDetailsRejects
    \/ SetTimeoutFires
    \/ GetResultEnds
    \/ GetReportEnds
    \/ MakeRequestSettles
    \/ TimerFires
    \/ Tick
    \/ FulfilHalf
    \/ FulfilRest

SpecHalf == InitHalf /\ [][NextHalf]_vars

\* the polling of a request that the inference node fulfils one or two
\* seconds after its submission, before the maxWaitTime of the call is over
InitDeadline ==
    /\ StorageIs(LedgerWithRequest.storage)
    /\ requestedLog = LedgerWithRequest.logs
    /\ finishedLog = <<>>
    /\ minio = NoCall
    /\ app = NoRun
    /\ now = 0
    /\ relayer \in {At(1 * Second), At(2 * Second)}
    /\ tee = NoVerification
    /\ peer = NoRun

NextDeadline ==
    \/ ShortWaitCall
    \/ GetRequestDetailsResolves
    \/ GetRequestDetailsRejects
    \/ SetTimeoutFires
    \/ GetResultEnds
    \/ GetReportEnds
    \/ MakeRequestSettles
    \/ TimerFires
    \/ Tick
    \/ FulfilDue

SpecDeadline == InitDeadline /\ [][NextDeadline]_vars

\* the address of the application's wallet
Wallet == "0xC3"

\* the prompts that execute is called with
Prompts == {Str(Hi), Str(<<>>)}

\* the models that execute is called with
ExecuteModels == {"COA", "GPT"}

ExecuteCall ==
    /\ app.pc = "idle"
    /\ \E prompt \in Prompts, model \in ExecuteModels, waitForResult \in BOOLEAN,
          inferenceAddress \in {CoaInference, OtherContract} :
          app' = execute(prompt, model, waitForResult, inferenceAddress)
    /\ UNCHANGED <<ledgerVars, minio, now, relayer, tee, peer>>

\* approveTokens ends; on success uploadPrompt calls putObject
ApproveTokensEnds ==
    /\ app.pc = "approveTokens"
    /\ \E approved \in BOOLEAN : app' = onApproved(app, approved)
    /\ minio' = IF app'.pc = "uploadPrompt" THEN putObject(app.prompt, DefaultRetries)
                ELSE minio
    /\ UNCHANGED <<ledgerVars, now, relayer, tee, peer>>

\* the putObject of uploadPrompt has ended
UploadPromptEnds ==
    /\ app.pc = "uploadPrompt"
    /\ minio.pc \in {"returned", "thrown"}
    /\ app' = onUploaded(app, minio)
    /\ minio' = NoCall
    /\ UNCHANGED <<ledgerVars, now, relayer, tee, peer>>

\* the read of models(model) resolves: with the flag of this contract, or
\* with whatever another contract answers
ModelsResolves ==
    /\ app.pc = "models"
    /\ \E isModelSupported \in BOOLEAN :
          /\ app.inferenceAddress = CoaInference => isModelSupported = models[app.model]
          /\ app' = onModels(app, isModelSupported)
    /\ UNCHANGED <<ledgerVars, minio, now, relayer, tee, peer>>

\* the read of models(model) or the sending of the transaction is rejected by
\* the provider
ProviderRejects ==
    /\ app.pc \in {"models", "requestCall"}
    /\ app' = Thrown(app, RpcError)
    /\ UNCHANGED <<ledgerVars, minio, now, relayer, tee, peer>>

\* the promptHash cannot be encoded as a bytes32: no transaction is sent
RequestCallNotEncodable ==
    /\ app.pc = "requestCall"
    /\ ~isBytes32(app.promptHash)
    /\ app' = Thrown(app, InvalidArgument)
    /\ UNCHANGED <<ledgerVars, minio, now, relayer, tee, peer>>

\* the requestCall transaction of the application is mined by this contract
RequestCallMined ==
    /\ app.pc = "requestCall"
    /\ isBytes32(app.promptHash)
    /\ app.inferenceAddress = CoaInference
    /\ LET r == requestCall(Storage, Wallet, app.model, toBytes32(app.promptHash))
       IN  /\ r.status = Ok => requestCounter < MaxRequests
           /\ MineAwaited(r)
           /\ app' = onMined(app, r, now)
    /\ UNCHANGED <<minio, now, relayer, tee, peer>>

\* the requestCall transaction of the application is mined by another
\* contract, which reverts or succeeds without a CallRequested event
RequestCallMinedElsewhere ==
    /\ app.pc = "requestCall"
    /\ isBytes32(app.promptHash)
    /\ app.inferenceAddress = OtherContract
    /\ \E r \in {Done(Storage, <<>>), Revert(Storage, "")} : app' = onMined(app, r, now)
    /\ UNCHANGED <<ledgerVars, minio, now, relayer, tee, peer>>

\* the run of execute against a deployed contract, whose inference node
\* fulfils request 1 at 15 seconds, or never
InitExecute ==
    /\ \E deployer \in Deployers, inferenceNode_ \in InitialNodes,
          initialModels \in Batches(LedgerModels) :
          LET r == constructor(deployer, inferenceNode_, initialModels)
          IN  r.status = Ok /\ StorageIs(r.storage)
    /\ requestedLog = <<>>
    /\ finishedLog = <<>>
    /\ minio = NoCall
    /\ app = NoRun
    /\ now = 0
    /\ relayer \in {Never, At(15 * Second)}
    /\ tee = NoVerification
    /\ peer = NoRun

NextExecute ==
    \/ ExecuteCall
    \/ ApproveTokensEnds
    \/ UploadPromptEnds
    \/ ModelsResolves
    \/ ProviderRejects
    \/ RequestCallNotEncodable
    \/ RequestCallMined
    \/ RequestCallMinedElsewhere
    \/ GetRequestDetailsResolves
    \/ GetRequestDetailsRejects
    \/ SetTimeoutFires
    \/ GetResultEnds
    \/ GetReportEnds
    \/ MakeRequestSettles
    \/ TimerFires
    \/ Tick
    \/ FulfilDue

SpecExecute == InitExecute /\ [][NextExecute]_vars

\* the steps of a run a of execute that touch nothing but the run: the
\* approval, the upload, the read of models, the reads of the record, the
\* timer of the loop and the downloads; aNext is the run after the step
OwnStep(a, aNext) ==
    \/ /\ a.pc = "approveTokens"
       /\ \E approved \in BOOLEAN : aNext = onApproved(a, approved)
    \/ /\ a.pc = "uploadPrompt"
       /\ \E c \in Settled(putObject(a.prompt, DefaultRetries)) : aNext = onUploaded(a, c)
    \/ /\ a.pc = "models"
       /\ aNext = onModels(a, models[a.model])
    \/ /\ a.pc \in {"models", "requestCall"}
       /\ aNext = Thrown(a, RpcError)
    \/ /\ a.pc = "requestCall"
       /\ ~isBytes32(a.promptHash)
       /\ aNext = Thrown(a, InvalidArgument)
    \/ /\ a.pc = "getRequestDetails"
       /\ aNext = onDetails(a, getRequestDetails(Storage, a.requestId), now)
    \/ /\ a.pc = "getRequestDetails"
       /\ aNext = Thrown([a EXCEPT !.polls = a.polls + 1], RpcError)
    \/ /\ a.pc = "setTimeout"
       /\ now >= a.since + a.checkInterval
       /\ aNext = whileTest(a, now)
    \/ /\ a.pc = "getResult"
       /\ \E c \in Settled(download(a.details.resultHash)) : aNext = onResult(a, c)
    \/ /\ a.pc = "getReport"
       /\ \E c \in Settled(download(a.details.reportHash)) : aNext = onReport(a, c)

\* the requestCall transaction of the run a is mined
Submits(a, aNext) ==
    /\ a.pc = "requestCall"
    /\ isBytes32(a.promptHash)
    /\ LET r == requestCall(Storage, Wallet, a.model, toBytes32(a.promptHash))
       IN  /\ r.status = Ok => requestCounter < MaxRequests
           /\ MineAwaited(r)
           /\ aNext = onMined(a, r, now)

\* the steps of the two applications
FirstSteps ==
    /\ OwnStep(app, app')
    /\ UNCHANGED <<ledgerVars, minio, now, relayer, tee, peer>>

PeerSteps ==
    /\ OwnStep(peer, peer')
    /\ UNCHANGED <<ledgerVars, minio, app, now, relayer, tee>>

FirstSubmits ==
    /\ Submits(app, app')
    /\ UNCHANGED <<minio, now, relayer, tee, peer>>

PeerSubmits ==
    /\ Submits(peer, peer')
    /\ UNCHANGED <<minio, app, now, relayer, tee>>

\* the inference node fulfils a request that is pending
NodeFulfils ==
    \E requestId \in 1 .. requestCounter, resultHash \in NodeHashes, reportHash \in NodeHashes :
        /\ calls[requestId].resultHash = ZeroHash
        /\ Mine(submitResult(Storage, inferenceNode, requestId, resultHash, reportHash))

\* a checkInterval passes
TickInterval ==
    /\ now < MaxRounds * DefaultCheckInterval
    /\ now' = now + DefaultCheckInterval
    /\ UNCHANGED <<ledgerVars, minio, app, relayer, tee, peer>>

\* two applications run execute against the same contract, the second one
\* with the prompt 'ok' and the model COA
InitConcurrent ==
    /\ StorageIs(constructor("0xA1", "0xB2", <<"COA">>).storage)
    /\ requestedLog = <<>>
    /\ finishedLog = <<>>
    /\ minio = NoCall
    /\ \E prompt \in Prompts, model \in ExecuteModels :
          app = execute(prompt, model, TRUE, CoaInference)
    /\ peer = execute(Str(Okay), "COA", TRUE, CoaInference)
    /\ now = 0
    /\ relayer = Never
    /\ tee = NoVerification

NextConcurrent ==
    \/ FirstSteps
    \/ PeerSteps
    \/ FirstSubmits
    \/ PeerSubmits
    \/ NodeFulfils
    \/ TickInterval

SpecConcurrent == InitConcurrent /\ [][NextConcurrent]_vars

\* one application runs execute while the owner adds and removes models
InitRace ==
    /\ StorageIs(constructor("0xA1", "0xB2", <<"COA">>).storage)
    /\ requestedLog = <<>>
    /\ finishedLog = <<>>
    /\ minio = NoCall
    /\ \E prompt \in Prompts, model \in ExecuteModels, waitForResult \in BOOLEAN :
          app = execute(prompt, model, waitForResult, CoaInference)
    /\ peer = NoRun
    /\ now = 0
    /\ relayer = Never
    /\ tee = NoVerification

NextRace ==
    \/ FirstSteps
    \/ FirstSubmits
    \/ AddModelTx(ExecuteModels)
    \/ DelModelTx(ExecuteModels)
    \/ NodeFulfils
    \/ TickInterval

SpecRace == InitRace /\ [][NextRace]_vars

(* ------------------------------ properties ----------------------------- *)

\* the ids of the records that hold anything
Allocated == {id \in RequestIds : calls[id] # EmptyCall}

\* P holds of the outcome of every requestCall that can be sent in the
\* current state
EveryRequestCall(P(_)) ==
    \A sender \in Accounts, model \in ModelNames, promptHash \in Hashes :
        P(requestCall(Storage, sender, model, promptHash))

\* P holds of the outcome of every addModel, addModels, delModel and delModels
\* that can be sent in the current state
EveryRegistryCall(P(_)) ==
    /\ \A sender \in Accounts, m \in ModelNames :
          P(addModel(Storage, sender, m)) /\ P(delModel(Storage, sender, m))
    /\ \A sender \in Accounts, b \in Batches(ProbeModels) :
          P(addModels(Storage, sender, b)) /\ P(delModels(Storage, sender, b))

\* P holds of the outcome of every setInferenceNode that can be sent in the
\* current state
EverySetInferenceNode(P(_)) ==
    \A sender \in Accounts, a \in Addresses : P(setInferenceNode(Storage, sender, a))

\* P holds of the outcome of every submitResult that can be sent in the
\* current state
EverySubmitResult(P(_)) ==
    \A sender \in Accounts, id \in RequestIds, r \in Hashes, p \in Hashes :
        P(submitResult(Storage, sender, id, r, p))

\* a requestCall with outcome r got the next id, whose record was empty, and
\* touched no other record; or it was rejected and consumed no id
NextIdOrNothing(r) ==
    IF r.status = Ok
    THEN /\ r.storage.requestCounter = requestCounter + 1
         /\ Len(r.logs) = 1
         /\ r.logs[1].requestId = requestCounter + 1
         /\ calls[r.logs[1].requestId] = EmptyCall
         /\ r.storage.calls[r.logs[1].requestId] # EmptyCall
         /\ \A id \in 1 .. requestCounter : r.storage.calls[id] = calls[id]
    ELSE /\ r.storage.requestCounter = requestCounter
         /\ r.storage.calls = calls
         /\ r.logs = <<>>

\* a call with outcome r allocated no id
NoIdAllocated(r) ==
    /\ r.storage.requestCounter = requestCounter
    /\ EventsNamed(r.logs, "CallRequested") = <<>>

\* C1: the k-th successful requestCall is assigned id k.  The CallRequested
\* events emitted so far carry the ids 1, 2, ..., requestCounter in this order
\* (ids start at 1, increase strictly, have no gaps and no repeats), the
\* records that hold anything are exactly those of the ids 1..requestCounter,
\* a requestCall that succeeds in the current state gets the id
\* requestCounter + 1 whose record is still empty, a requestCall that is
\* rejected leaves the counter where it is and emits nothing, and so does
\* every call of another function, rejected or not.
C1_IdsSequential ==
    /\ Len(requestedLog) = requestCounter
    /\ \A k \in 1 .. Len(requestedLog) : requestedLog[k].requestId = k
    /\ Allocated = 1 .. requestCounter
    /\ EveryRequestCall(NextIdOrNothing)
    /\ EveryRegistryCall(NoIdAllocated)
    /\ EverySetInferenceNode(NoIdAllocated)
    /\ EverySubmitResult(NoIdAllocated)

\* C1 witness: two requests were submitted and got the ids 1 and 2, while a
\* requestCall sent now would be rejected for its model or its empty hash.
C1_Witness ==
    /\ requestCounter = 2
    /\ requestedLog[1].requestId = 1
    /\ requestedLog[2].requestId = 2
    /\ ~EveryRequestCall(LAMBDA r : r.status # ErrModelUnsupported)
    /\ ~EveryRequestCall(LAMBDA r : r.status # ErrPromptHashEmpty)

\* C2 (the claim as stated): whenever submitResult(id, r, p) sent by the
\* inference node succeeds, the record holds r and p, and every submitResult
\* on the same id sent after it fails with "already fulfilled" and leaves the
\* stored digests equal to r and p.
C2_FulfillAtMostOnce ==
    \A id \in RequestIds, r \in Hashes, p \in Hashes :
        LET first == submitResult(Storage, inferenceNode, id, r, p)
        IN  first.status = Ok =>
              /\ first.storage.calls[id].resultHash = r
              /\ first.storage.calls[id].reportHash = p
              /\ \A r2 \in Hashes, p2 \in Hashes :
                    LET second == submitResult(first.storage, inferenceNode, id, r2, p2)
                    IN  /\ second.status = ErrAlreadyFulfilled
                        /\ second.storage.calls[id].resultHash = r
                        /\ second.storage.calls[id].reportHash = p

\* C3 (the claim as stated): in every reachable state every record has a
\* zero resultHash exactly when it has a zero reportHash.
C3_NoPartialFulfillment ==
    \A id \in RequestIds :
        (calls[id].resultHash = ZeroHash) <=> (calls[id].reportHash = ZeroHash)

\* C4 (the claim as stated): a digest of a record that is non-zero keeps its
\* value in every step, for resultHash and for reportHash.
C4_DigestsImmutable ==
    [][\A id \in RequestIds :
          /\ calls[id].resultHash # ZeroHash =>
                calls'[id].resultHash = calls[id].resultHash
          /\ calls[id].reportHash # ZeroHash =>
                calls'[id].reportHash = calls[id].reportHash]_vars

\* C5 (the claim as stated): a requestCall whose model is not whitelisted
\* fails with "model unsupported" and leaves the storage as it is, and once the
\* owner has added the model the identical requestCall succeeds with an id
\* larger than every allocated id.
C5_UnsupportedThenAdded ==
    \A sender \in Accounts, model \in ModelNames, promptHash \in Hashes :
        ~models[model] =>
            LET rejected == requestCall(Storage, sender, model, promptHash)
                added == addModel(Storage, owner, model)
                again == requestCall(added.storage, sender, model, promptHash)
            IN  /\ rejected.status = ErrModelUnsupported
                /\ rejected.storage = Storage
                /\ added.status = Ok
                /\ again.status = Ok
                /\ Len(again.logs) = 1
                /\ \A id \in Allocated : again.logs[1].requestId > id

\* C5 (amended): as C5_UnsupportedThenAdded, but the resubmission succeeds
\* when promptHash is non-zero; with a zero promptHash the resubmission is
\* rejected with "prompt hash is empty" and the storage stays as it is.
C5_UnsupportedThenAddedNonZero ==
    \A sender \in Accounts, model \in ModelNames, promptHash \in Hashes :
        ~models[model] =>
            LET rejected == requestCall(Storage, sender, model, promptHash)
                added == addModel(Storage, owner, model)
                again == requestCall(added.storage, sender, model, promptHash)
            IN  /\ rejected.status = ErrModelUnsupported
                /\ rejected.storage = Storage
                /\ added.status = Ok
                /\ IF promptHash # ZeroHash
                   THEN /\ again.status = Ok
                        /\ Len(again.logs) = 1
                        /\ \A id \in Allocated : again.logs[1].requestId > id
                        /\ again.storage.calls[again.logs[1].requestId] =
                              Call(sender, model, promptHash, ZeroHash, ZeroHash)
                   ELSE /\ again.status = ErrPromptHashEmpty
                        /\ again.storage = added.storage

\* C5 witness: ids are allocated, one of them to a model that is no longer
\* whitelisted, so that a requestCall for it is rejected now and gets a larger
\* id once the model is added again.
C5_Witness ==
    \E id \in Allocated :
        /\ calls[id].model \in ModelNames
        /\ ~models[calls[id].model]
        /\ requestCounter < MaxRequests

\* what the record of an allocated id must hold: what its CallRequested event
\* announced, with a non-zero promptHash
RecordsAsSubmitted ==
    \A id \in 1 .. requestCounter :
        /\ calls[id].promptHash # ZeroHash
        /\ calls[id].model \in ModelNames
        /\ id <= Len(requestedLog)
        /\ calls[id].promptHash = requestedLog[id].promptHash
        /\ calls[id].model = requestedLog[id].model
        /\ calls[id].caller = requestedLog[id].caller

\* a requestCall succeeds only for a model that is whitelisted at that moment
\* and a non-zero promptHash, and stores exactly these in the new record
SubmittedOnlyWhitelisted ==
    \A sender \in Accounts, model \in ModelNames, promptHash \in Hashes :
        LET r == requestCall(Storage, sender, model, promptHash)
        IN  r.status = Ok =>
              /\ models[model]
              /\ promptHash # ZeroHash
              /\ r.storage.calls[r.storage.requestCounter] =
                    Call(sender, model, promptHash, ZeroHash, ZeroHash)

\* C6 (the claim as stated): every allocated record has a non-zero promptHash
\* and the model it was submitted with, which was whitelisted then; a
\* requestCall with a zero promptHash fails with "prompt hash is empty" and
\* leaves the counter and the records as they are.
C6_PromptHashNeverZero ==
    /\ RecordsAsSubmitted
    /\ SubmittedOnlyWhitelisted
    /\ \A sender \in Accounts, model \in ModelNames :
          LET r == requestCall(Storage, sender, model, ZeroHash)
          IN  /\ r.status = ErrPromptHashEmpty
              /\ r.storage = Storage

\* C6 (amended): as C6_PromptHashNeverZero, but a requestCall with a zero
\* promptHash fails with "prompt hash is empty" when its model is whitelisted
\* and with "model unsupported" when it is not (the model is checked first).
C6_PromptHashNeverZeroListed ==
    /\ RecordsAsSubmitted
    /\ SubmittedOnlyWhitelisted
    /\ \A sender \in Accounts, model \in ModelNames :
          LET r == requestCall(Storage, sender, model, ZeroHash)
          IN  /\ r.status = IF models[model] THEN ErrPromptHashEmpty
                                             ELSE ErrModelUnsupported
              /\ r.storage = Storage

\* C6 witness: records are allocated while one model is whitelisted and
\* another is not, so a zero promptHash meets both rejections.
C6_Witness ==
    /\ requestCounter = MaxRequests
    /\ \E m \in ModelNames : models[m]
    /\ \E m \in ModelNames : ~models[m]

\* a call with outcome r left the inference node as it is
SameInferenceNode(r) == r.storage.inferenceNode = inferenceNode

\* every submitResult sent by sender on storage S is rejected with "not
\* inference node" and changes nothing
RejectedAsStranger(S, sender) ==
    \A id \in RequestIds, r \in Hashes, p \in Hashes :
        LET x == submitResult(S, sender, id, r, p)
        IN  x.status = ErrNotInferenceNode /\ x.storage = S

\* C7: submitResult succeeds only for the current inference node and a call
\* by any other account is rejected without changing the storage; the
\* current inference node is the address of the latest successful
\* setInferenceNode: a successful setInferenceNode(a) makes a the node, after
\* which the previous node and the owner are rejected unless they are a, and
\* no other call changes the node.
C7_OnlyCurrentInferenceNode ==
    /\ inferenceNode \in Accounts
    /\ \A sender \in Accounts, id \in RequestIds, r \in Hashes, p \in Hashes :
          submitResult(Storage, sender, id, r, p).status = Ok => sender = inferenceNode
    /\ \A sender \in Accounts : sender # inferenceNode => RejectedAsStranger(Storage, sender)
    /\ \A sender \in Accounts, a \in Addresses :
          LET y == setInferenceNode(Storage, sender, a)
          IN  IF y.status = Ok
              THEN /\ y.storage.inferenceNode = a
                   /\ inferenceNode # a => RejectedAsStranger(y.storage, inferenceNode)
                   /\ owner # a => RejectedAsStranger(y.storage, owner)
              ELSE y.storage = Storage
    /\ EveryRequestCall(SameInferenceNode)
    /\ EveryRegistryCall(SameInferenceNode)
    /\ EverySubmitResult(SameInferenceNode)

\* C7 witness: the inference node is an account that was not given to the
\* constructor, so it was reassigned, it is not the owner, and a record was
\* fulfilled while another one is pending.
C7_Witness ==
    /\ inferenceNode \notin InitialNodes
    /\ inferenceNode # owner
    /\ \E id \in Allocated : calls[id].resultHash # ZeroHash
    /\ \E id \in Allocated : calls[id].resultHash = ZeroHash

\* the ids outside the allocated range
Unallocated == {id \in RequestIds : ~(id > 0 /\ id <= requestCounter)}

\* C8 (the claim as stated): submitResult with an id outside 1..requestCounter
\* fails with "invalid requestId" and changes nothing, and the records outside
\* the allocated range are empty.
C8_InvalidIdRejected ==
    /\ \A id \in Unallocated : calls[id] = EmptyCall
    /\ \A sender \in Accounts, id \in Unallocated, r \in Hashes, p \in Hashes :
          LET x == submitResult(Storage, sender, id, r, p)
          IN  x.status = ErrInvalidRequestId /\ x.storage = Storage

\* C8 (amended): as C8_InvalidIdRejected, but the failure is "invalid
\* requestId" when the sender is the inference node; any other sender is
\* rejected with "not inference node" before the id is looked at.
C8_InvalidIdRejectedForNode ==
    /\ \A id \in Unallocated : calls[id] = EmptyCall
    /\ \A sender \in Accounts, id \in Unallocated, r \in Hashes, p \in Hashes :
          LET x == submitResult(Storage, sender, id, r, p)
          IN  /\ x.status = IF sender = inferenceNode THEN ErrInvalidRequestId
                                                      ELSE ErrNotInferenceNode
              /\ x.storage = Storage

\* C8 witness: id 1 is allocated and fulfilled while the ids 0 and 2 are
\* outside the allocated range.
C8_Witness ==
    /\ requestCounter = 1
    /\ calls[1].resultHash # ZeroHash
    /\ calls[1].reportHash # ZeroHash

\* the pending requests whose model is not whitelisted
PendingUnlisted ==
    {id \in 1 .. requestCounter :
        calls[id].resultHash = ZeroHash /\ ~models[calls[id].model]}

\* every submitResult sent by the inference node on id in storage S succeeds
\* and stores the two hashes
Fulfillable(S, id) ==
    \A r \in Hashes, p \in Hashes :
        LET x == submitResult(S, S.inferenceNode, id, r, p)
        IN  /\ x.status = Ok
            /\ x.storage.calls[id].resultHash = r
            /\ x.storage.calls[id].reportHash = p

\* C9: adding and removing models changes no record, and a pending request can be
\* fulfilled by the inference node both in a state where its model is not
\* whitelisted and right after the owner has removed its model.
C9_SurvivesModelRemoval ==
    /\ EveryRegistryCall(LAMBDA r : r.storage.calls = calls)
    /\ \A id \in PendingUnlisted : Fulfillable(Storage, id)
    /\ \A id \in 1 .. requestCounter :
          calls[id].resultHash = ZeroHash =>
            /\ Fulfillable(delModel(Storage, owner, calls[id].model).storage, id)
            /\ Fulfillable(delModels(Storage, owner, <<calls[id].model>>).storage, id)

\* C9 witness: a request is pending and its model is no longer whitelisted.
C9_Witness == PendingUnlisted # {}

\* C10: the listing holds a name exactly when its membership flag is true,
\* and holds no name twice.
C10_RegistryConsistent ==
    LET listing == getAllModels(Storage)
    IN  /\ \A m \in ModelNames :
              models[m] <=> \E i \in 1 .. Len(listing) : listing[i] = m
        /\ \A i \in 1 .. Len(listing), j \in 1 .. Len(listing) :
              i # j => listing[i] # listing[j]

\* C10 witness: three models are listed, one is not, and removing the first
\* of the listing moves the last one into its slot.
C10_Witness ==
    /\ Len(modelList) = 3
    /\ \E m \in ModelNames : ~models[m]
    /\ LET r == delModel(Storage, owner, modelList[1])
       IN  /\ r.status = Ok
           /\ r.storage.modelList = <<modelList[3], modelList[2]>>

\* the models whose membership flag is true
Listed == {m \in ModelNames : models[m]}

\* C11 (the claim as stated): addModel sent by the owner with a model that is
\* already whitelisted returns without error, emits no event and leaves the
\* storage unchanged.
C11_AddModelIdempotent ==
    \A m \in Listed :
        LET r == addModel(Storage, owner, m)
        IN  r.status = Ok /\ r.logs = <<>> /\ r.storage = Storage

\* C11 (amended): addModel sent by the owner with a model that is already
\* whitelisted reverts with "model already exists", emits no event and leaves
\* the storage unchanged; addModels with that model alone is the call that
\* returns without error, emits no event and changes nothing.
C11_AddModelListedReverts ==
    \A m \in Listed :
        LET r == addModel(Storage, owner, m)
            b == addModels(Storage, owner, <<m>>)
        IN  /\ r.status = ErrModelExists /\ r.logs = <<>> /\ r.storage = Storage
            /\ b.status = Ok /\ b.logs = <<>> /\ b.storage = Storage

\* C11 witness: a model that addModel put at the end of the listing after the
\* deployment is whitelisted, so the owner's next addModel of it meets the
\* require.
C11_Witness ==
    /\ Len(modelList) = 3
    /\ addModel(Storage, owner, modelList[3]).status = ErrModelExists

\* the models whose membership flag is false
Unlisted == ModelNames \ Listed

\* C12 (the claim as stated): delModel with a model that is not whitelisted
\* reverts with "model no exists", emits no event and leaves the membership
\* flags, the listing and the rest of the storage unchanged.
C12_DelModelUnlistedUnknown ==
    \A m \in Unlisted, sender \in Accounts :
        LET r == delModel(Storage, sender, m)
        IN  /\ r.status = ErrModelNoExists
            /\ r.logs = <<>>
            /\ r.storage = Storage

\* C12 (amended): delModel with a model that is not whitelisted, sent by the
\* owner, reverts with "model no exists"; sent by anybody, it reverts (a
\* sender other than the owner is stopped by onlyOwner), emits no event and
\* leaves the membership flags, the listing and the rest of the storage
\* unchanged.
C12_DelModelUnlistedReverts ==
    \A m \in Unlisted :
        /\ delModel(Storage, owner, m).status = ErrModelNoExists
        /\ \A sender \in Accounts :
              LET r == delModel(Storage, sender, m)
              IN  /\ r.status # Ok
                  /\ r.logs = <<>>
                  /\ r.storage.models = models
                  /\ r.storage.modelList = modelList
                  /\ r.storage = Storage

\* C12 witness: the registry was changed after the deployment, three models
\* are listed, and the owner's delModel of the model that is not listed meets
\* the require.
C12_Witness ==
    /\ Len(modelList) = 3
    /\ \E m \in Unlisted : delModel(Storage, owner, m).status = ErrModelNoExists

\* the accounts that are not the owner
Strangers == Accounts \ {owner}

\* a call with outcome r was rejected by onlyOwner and changed nothing
RejectedByOnlyOwner(r) ==
    r.status = ErrNotOwner /\ r.storage = Storage /\ r.logs = <<>>

\* C13: every addModel, addModels, delModel, delModels and setInferenceNode
\* sent by an account other than the owner is rejected and changes nothing;
\* setInferenceNode(address(0)) sent by the owner is rejected and changes
\* nothing, and so is a deployment with inferenceNode_ = address(0); the
\* inference node is never address(0).
C13_OnlyOwnerAdministers ==
    /\ inferenceNode # ZeroAddress
    /\ \A sender \in Strangers :
          /\ \A m \in ModelNames :
                /\ RejectedByOnlyOwner(addModel(Storage, sender, m))
                /\ RejectedByOnlyOwner(delModel(Storage, sender, m))
          /\ \A b \in Batches(ProbeModels) :
                /\ RejectedByOnlyOwner(addModels(Storage, sender, b))
                /\ RejectedByOnlyOwner(delModels(Storage, sender, b))
          /\ \A a \in Addresses :
                RejectedByOnlyOwner(setInferenceNode(Storage, sender, a))
    /\ LET r == setInferenceNode(Storage, owner, ZeroAddress)
       IN  r.status = ErrNodeEmpty /\ r.storage = Storage
    /\ \A a \in Accounts \ {ZeroAddress} :
          LET r == setInferenceNode(Storage, owner, a)
          IN  r.status = Ok /\ r.storage.inferenceNode = a
    /\ \A deployer \in Deployers, b \in Batches(ProbeModels) :
          constructor(deployer, ZeroAddress, b).status = ErrNodeEmpty

\* C13 witness: the owner has reassigned the inference node to an account
\* that was not given to the constructor and has changed the registry, and
\* that inference node is not the owner, so its own administrative calls are
\* rejected.
C13_Witness ==
    /\ inferenceNode \notin InitialNodes
    /\ inferenceNode \in Strangers
    /\ Len(modelList) = 3
    /\ RejectedByOnlyOwner(setInferenceNode(Storage, inferenceNode, owner))

\* a ledger write with outcome r emitted exactly one event of the given name,
\* or it was rejected, emitted nothing and changed nothing
OneEventOrNothing(r, name) ==
    IF r.status = Ok
    THEN Len(r.logs) = 1 /\ r.logs[1].name = name
    ELSE r.logs = <<>> /\ r.storage = Storage

\* the event of a successful requestCall carries the allocated id
CarriesAllocatedId(r) ==
    /\ OneEventOrNothing(r, "CallRequested")
    /\ r.status = Ok => r.logs[1].requestId = r.storage.requestCounter

\* the event of a successful submitResult carries the stored hashes
CarriesStoredHashes(r) ==
    /\ OneEventOrNothing(r, "CallFinished")
    /\ r.status = Ok =>
          LET e == r.logs[1]
          IN  /\ r.storage.calls[e.requestId].resultHash = e.resultHash
              /\ r.storage.calls[e.requestId].reportHash = e.reportHash

\* every ledger write that can be sent in the current state emits its one
\* event, or is rejected without an event and without a change
WritesEmitOneEvent ==
    /\ EveryRequestCall(CarriesAllocatedId)
    /\ EverySubmitResult(CarriesStoredHashes)

\* the CallRequested events are those of the ids 1..requestCounter, in order
RequestedEventsAreTheIds ==
    /\ Len(requestedLog) = requestCounter
    /\ \A k \in 1 .. Len(requestedLog) : requestedLog[k].requestId = k

\* every collected CallFinished event carries the hashes that its record holds
FinishedEventsAreStored ==
    \A i \in 1 .. Len(finishedLog) :
        LET e == finishedLog[i]
        IN  /\ calls[e.requestId].resultHash = e.resultHash
            /\ calls[e.requestId].reportHash = e.reportHash

\* every record that holds a result or a report has a CallFinished event with
\* the hashes it holds
StoredHashesHaveEvent ==
    \A id \in 1 .. requestCounter :
        (calls[id].resultHash # ZeroHash \/ calls[id].reportHash # ZeroHash) =>
            \E i \in 1 .. Len(finishedLog) :
                finishedLog[i] = CallFinished(id, calls[id].resultHash, calls[id].reportHash)

\* C14 (the claim as stated): every successful requestCall emits exactly one
\* CallRequested event carrying the allocated id, every successful submitResult
\* exactly one CallFinished event carrying the stored hashes, a rejected write
\* emits nothing and changes nothing; the CallRequested events are the ids
\* 1..requestCounter in order, and a CallFinished(id, r, p) event exists
\* exactly for the records whose stored hashes are (r, p).
C14_EventsMatchRecords ==
    /\ WritesEmitOneEvent
    /\ RequestedEventsAreTheIds
    /\ FinishedEventsAreStored
    /\ StoredHashesHaveEvent

\* a putObject / getObject call whose argument is a non-empty string is running
\* or has ended
CallWithString ==
    /\ minio.pc # "idle"
    /\ typeof(minio.arg) = "string"
    /\ minio.arg # Str(<<>>)

\* the call has ended
Ended == minio.pc \in {"returned", "thrown"}

\* at most config.retries requests were made, and none after one that succeeded
AtMostRetriesAttempts ==
    /\ Len(minio.responses) <= minio.retries
    /\ \A i \in 1 .. Len(minio.responses) - 1 : ~minio.responses[i].ok

\* a call that returned returned the data of its last request, which succeeded
ReturnsFirstSuccess ==
    minio.pc = "returned" =>
        /\ minio.responses # <<>>
        /\ minio.responses[Len(minio.responses)].ok
        /\ minio.outcome = minio.responses[Len(minio.responses)].value

\* a call that threw made config.retries requests, and what it threw is an
\* Error that carries the message of the error of the last of them
ThrowsLastError ==
    minio.pc = "thrown" =>
        /\ minio.outcome.type = "Error"
        /\ minio.retries >= 1
        /\ Len(minio.responses) = minio.retries
        /\ ~minio.responses[minio.retries].ok
        /\ minio.outcome.value =
              <<Prefix(minio.method)>> \o minio.responses[minio.retries].value.value

\* the k-th wait lasted min(1000 * 2^(k-1), 5000) ms; every wait follows a
\* failed request and is followed by another request, so that a call that
\* has ended has waited once less than it has made requests
BackoffBetweenAttempts ==
    /\ \A k \in 1 .. Len(minio.delays) :
          minio.delays[k] = Min(1000 * 2 ^ (k - 1), 5000)
    /\ minio.pc = "sleeping" => Len(minio.delays) = Len(minio.responses)
    /\ minio.pc = "requesting" => Len(minio.delays) = Len(minio.responses)
    /\ Ended => Len(minio.delays) + 1 = Len(minio.responses)

RetryPolicy ==
    /\ AtMostRetriesAttempts
    /\ ReturnsFirstSuccess
    /\ ThrowsLastError
    /\ BackoffBetweenAttempts

\* C15 (the claim as stated): a putObject / getObject call of a client with
\* config.retries = N makes at most N requests, returns the first successful
\* response without another request, throws an error carrying the N-th
\* request's error if all N failed, never an error that comes from undefined,
\* waits min(1000 * 2^(k-1), 5000) ms before request k+1 and does not wait
\* after the last request.
C15_RetryPolicy == CallWithString => RetryPolicy

\* the retry policy of the clients whose config.retries is at least 1
RetryPolicyOfPositiveRetries == (CallWithString /\ minio.retries >= 1) => RetryPolicy

\* a call has gone through the capped wait and all its requests have failed
RetriesExhausted ==
    /\ CallWithString
    /\ minio.pc = "thrown"
    /\ Len(minio.delays) >= 4
    /\ minio.delays[4] = 5000

\* the argument is the empty string or not a string at all
EmptyOrNonString(v) == typeof(v) # "string" \/ v = Str(<<>>)

\* the precondition error of the method
PreconditionError(method) ==
    IF method = "putObject" THEN Error(<<"Content must be a non-empty string">>)
    ELSE Error(<<"Key must be a non-empty string">>)

\* C16: a putObject / getObject call whose argument is empty or not a string
\* has thrown the precondition error of its method, and has made no request,
\* entered no retry loop and waited for no backoff.
C16_PreconditionBeforeRequest ==
    (minio.pc # "idle" /\ EmptyOrNonString(minio.arg)) =>
        /\ minio.pc = "thrown"
        /\ minio.outcome = PreconditionError(minio.method)
        /\ minio.responses = <<>>
        /\ minio.attempt = 0
        /\ minio.delays = <<>>

\* C16 witness: getObject was called with the empty string by a client that
\* is configured for three attempts, and has thrown.
C16_Witness ==
    /\ minio.method = "getObject"
    /\ minio.arg = Str(<<>>)
    /\ minio.retries = 3
    /\ minio.pc = "thrown"

\* the request that the application polls is never fulfilled
NeverFulfilled == relayer = Never

\* the number of moments 0, I, 2 * I, ... that lie before W
MostPolls(W, I) == (W + I - 1) \div I

\* a poll of a request that is never fulfilled does not resolve, reads the
\* ledger at most once per checkInterval of its maxWaitTime, at most 4 times
\* with an interval of 1 s and a wait of 3 s, and ends, if it ends, with the
\* timeout error, or with the error of a read that the provider rejected
TimesOutBounded ==
    (NeverFulfilled /\ app.pc # "idle") =>
        /\ app.pc \notin {"getResult", "getReport", "returned"}
        /\ app.polls <= MostPolls(app.maxWaitTime, app.checkInterval)
        /\ (app.checkInterval = 1 * Second /\ app.maxWaitTime = 3 * Second) => app.polls <= 4
        /\ app.pc = "thrown" =>
              \/ app.outcome = TimeoutError(app.maxWaitTime)
              \/ app.outcome = RpcError

\* C17 (the claim as stated): a waitForInferenceResult on a request that is
\* never fulfilled does not resolve, reads the ledger a bounded number of
\* times (at most 4 with an interval of 1 s and a maximum wait of 3 s) and,
\* when it has ended, has thrown the timeout error.
C17_EndsTimedOut ==
    (NeverFulfilled /\ app.pc # "idle") =>
        /\ app.pc \notin {"getResult", "getReport", "returned"}
        /\ app.polls <= MostPolls(app.maxWaitTime, app.checkInterval)
        /\ (app.checkInterval = 1 * Second /\ app.maxWaitTime = 3 * Second) => app.polls <= 4
        /\ app.pc = "thrown" => app.outcome = TimeoutError(app.maxWaitTime)

\* C17 (amended): a waitForInferenceResult on a request that is never fulfilled
\* always ends, after a bounded number of reads of the ledger (at most 4 with
\* an interval of 1 s and a maximum wait of 3 s), never by resolving, and with
\* the timeout error unless the provider rejected a read, whose error it then
\* throws.
C17_TimesOut ==
    /\ []TimesOutBounded
    /\ (NeverFulfilled /\ app.pc # "idle") ~> (app.pc = "thrown")

\* C17 witness: with an interval of 1 s and a maximum wait of 3 s the poll of
\* the request, which is pending, has thrown the timeout error after three
\* reads.
C17_Witness ==
    /\ relayer = Never
    /\ app.requestId = BigInt(1)
    /\ app.checkInterval = 1 * Second
    /\ app.maxWaitTime = 3 * Second
    /\ app.pc = "thrown"
    /\ app.outcome = TimeoutError(3 * Second)
    /\ app.polls = 3

\* the request is fulfilled 15 seconds after its submission and is polled with
\* the default interval of 10 seconds and the default maximum wait of 5 minutes
FulfilledAfter15s ==
    /\ relayer = At(15 * Second)
    /\ app.pc # "idle"
    /\ app.checkInterval = 10 * Second
    /\ app.maxWaitTime = 5 * 60 * Second

\* the poll has found both hashes set
Resolving == app.pc \in {"getResult", "getReport", "returned"}

\* the content that the store holds under the key that follows '0x' in the
\* text of hash
ObjectUnder(hash) ==
    (CHOOSE o \in StoredObjects : <<"0", "x">> \o o.key = hexlify(hash)).content

\* the downloads ask for the keys that follow '0x' in the hashes of the
\* record, and what the poll returns is the id, the two hashes of the record
\* and the two objects stored under those keys
ReturnsStoredObjects ==
    /\ (app.pc = "getResult" /\ minio.pc # "idle") =>
          <<"0", "x">> \o minio.arg.value = hexlify(calls[1].resultHash)
    /\ (app.pc = "getReport" /\ minio.pc # "idle") =>
          <<"0", "x">> \o minio.arg.value = hexlify(calls[1].reportHash)
    /\ app.pc = "returned" =>
          /\ app.outcome.requestId = BigInt(1)
          /\ app.outcome.resultHash = hexlify(calls[1].resultHash)
          /\ app.outcome.reportHash = hexlify(calls[1].reportHash)
          /\ app.outcome.result = Str(ObjectUnder(calls[1].resultHash))
          /\ app.outcome.report = Str(ObjectUnder(calls[1].reportHash))

\* C18 (the claim as stated): the poll of a request that is fulfilled 15 s
\* after its submission, with an interval of 10 s and a maximum wait of 5
\* minutes, finds the hashes within two reads of the ledger, and returns the
\* objects stored under the record's hashes without their prefix, with those
\* hashes.
C18_ResolvesInTwoReads ==
    FulfilledAfter15s =>
        /\ Resolving => app.polls <= 2
        /\ ReturnsStoredObjects

\* the poll makes at most three reads, finds the hashes at the second or the
\* third, does not time out, and returns the stored objects
ResolvesInThreeReads ==
    FulfilledAfter15s =>
        /\ app.polls <= 3
        /\ Resolving => app.polls \in {2, 3}
        /\ app.pc = "thrown" => app.outcome # TimeoutError(app.maxWaitTime)
        /\ ReturnsStoredObjects

\* C18 (amended): the poll of a request that is fulfilled 15 s after its
\* submission, with an interval of 10 s and a maximum wait of 5 minutes,
\* always ends, without timing out; it finds the hashes at its second or
\* third read of the ledger, and what it returns is the objects stored under
\* the record's hashes without their prefix, with those hashes.
C18_ResolvesInThreeReads ==
    /\ []ResolvesInThreeReads
    /\ FulfilledAfter15s ~> (app.pc \in {"returned", "thrown"})

\* C18 witness: the poll has returned after three reads; the record holds two
\* different hashes and the result is the object of the first.
C18_Witness ==
    /\ FulfilledAfter15s
    /\ app.pc = "returned"
    /\ app.polls = 3
    /\ calls[1].resultHash = "0x22"
    /\ calls[1].reportHash = "0x11"
    /\ app.outcome.result = Str(Okay)
    /\ app.outcome.report = Str(Hi)

\* the pcs of the loop of waitForInferenceResult
Polling == app.pc \in {"getRequestDetails", "setTimeout", "getResult", "getReport"}

\* the requestCall transaction of the run succeeded and its receipt holds no
\* CallRequested event
ReceiptWithoutEvent ==
    /\ app.method = "execute"
    /\ app.receipt.mined
    /\ EventsNamed(app.receipt.logs, "CallRequested") = <<>>

\* the errors of a failed transaction, of a failed read and of a failed encoding
TransportErrors == {CallException(""), RpcError, InvalidArgument}

\* C19: when the requestCall transaction succeeds and its receipt holds no
\* CallRequested event, the run is not polling, has made no poll, and has
\* ended thrown with an error that is none of the transaction's, the
\* provider's or the encoder's
C19_MissingEventFails ==
    ReceiptWithoutEvent =>
        /\ ~Polling
        /\ app.polls = 0
        /\ app.pc = "thrown"
        /\ app.outcome \notin TransportErrors

\* the run against another contract polls with requestId undefined
PollsWithoutId ==
    /\ ReceiptWithoutEvent
    /\ app.pc = "getRequestDetails"
    /\ app.requestId = Undefined

\* the run against another contract returns normally with requestId undefined
ReturnsWithoutId ==
    /\ ReceiptWithoutEvent
    /\ app.pc = "returned"
    /\ ~app.waitForResult
    /\ app.outcome.requestId = Undefined

\* with a CallRequested event in every receipt the run polls only with an id:
\* whenever the run is polling or has polled, its requestId is a bigint
PollsWithIdOfCoaInference ==
    (app.inferenceAddress = CoaInference /\ (Polling \/ app.polls > 0)) =>
        app.requestId.type = "bigint"

\* the upload of the run has returned a key
Uploaded == app.objectKey.type = "string"

\* the run is past its upload: at the read of models, at the transaction, or
\* with a receipt
PastUpload == app.pc \in {"models", "requestCall"} \/ app.receipt.mined

\* the submit is issued only after the upload returned a key, and its
\* promptHash is '0x' and that key
SubmitAfterUpload ==
    /\ PastUpload => Uploaded
    /\ (app.pc = "requestCall" \/ app.receipt.mined) =>
           app.promptHash = <<"0", "x">> \o app.objectKey.value

\* the request that this contract recorded for the run carries the key of
\* the upload as its promptHash, and so does its CallRequested event
SubmitsTheKey ==
    (app.receipt.mined /\ app.inferenceAddress = CoaInference) =>
        /\ requestCounter = 1
        /\ hexlify(calls[1].promptHash) = <<"0", "x">> \o app.objectKey.value
        /\ Len(requestedLog) = 1
        /\ hexlify(requestedLog[1].promptHash) = <<"0", "x">> \o app.objectKey.value

\* polling starts only after the transaction is mined, and with the id of the
\* CallRequested event of its receipt
PollingAfterSubmit ==
    (Polling \/ app.polls > 0) =>
        /\ app.receipt.mined
        /\ EventsNamed(app.receipt.logs, "CallRequested") # <<>>
        /\ app.requestId = BigInt(EventsNamed(app.receipt.logs, "CallRequested")[1].requestId)

\* a run whose upload has not returned a key has submitted nothing and has
\* polled nothing
UploadFailureIsTerminal ==
    (app.method = "execute" /\ ~Uploaded) =>
        /\ ~app.receipt.mined
        /\ requestCounter = 0
        /\ requestedLog = <<>>
        /\ ~Polling
        /\ app.polls = 0

\* a run whose transaction was not mined has polled nothing
SubmitFailureIsTerminal ==
    (app.method = "execute" /\ ~app.receipt.mined) => (~Polling /\ app.polls = 0)

\* C20: within a run of execute the submit follows the upload and uses its
\* key as promptHash, the polling follows the mined transaction and uses the
\* id of its event, a failed upload ends the run with no submit and no poll,
\* and a failed submit ends it with no poll
C20_UploadSubmitPoll ==
    /\ SubmitAfterUpload
    /\ SubmitsTheKey
    /\ PollingAfterSubmit
    /\ UploadFailureIsTerminal
    /\ SubmitFailureIsTerminal

\* the order of the steps in the runs against this contract
UploadSubmitPollOfCoaInference ==
    app.inferenceAddress = CoaInference => C20_UploadSubmitPoll

\* a run against this contract is polling with the id of its event
PollsWithEventId ==
    /\ app.method = "execute"
    /\ app.pc = "setTimeout"
    /\ app.requestId = BigInt(1)
    /\ app.polls >= 2

\* the upload of a run failed and the run has ended
UploadFailed ==
    /\ app.method = "execute"
    /\ app.pc = "thrown"
    /\ ~Uploaded
    /\ app.outcome # ApprovalError

\* the ledger as the inference node leaves it: as submitted, or with request
\* 1 fulfilled
LedgerOfTheNode ==
    \/ StorageIs(LedgerWithRequest.storage)
    \/ \E resultHash \in NodeHashes, reportHash \in NodeHashes :
          StorageIs(submitResult(LedgerWithRequest.storage, inferenceNode, 1,
                                 resultHash, reportHash).storage)

\* the polls write nothing: the ledger is as the inference node leaves it,
\* and after a timeout with the request pending it is as it was submitted
PollLeavesLedger ==
    /\ LedgerOfTheNode
    /\ requestedLog = LedgerWithRequest.logs
    /\ (TimedOut /\ Pending) => StorageIs(LedgerWithRequest.storage)

\* waitForInferenceResult was called again after a timeout, and after the
\* inference node had fulfilled the request
ResumedAfterFulfilment ==
    /\ app.resumes >= 1
    /\ relayer.due
    /\ app.startTime > relayer.at

\* the error of a download that failed
DownloadError ==
    /\ app.outcome.type = "Error"
    /\ app.outcome.value # <<>>
    /\ app.outcome.value[1] = Prefix("getObject")

\* the call after the fulfilment finds the hashes at its first read, does not
\* wait, does not time out, fails only with the error of a rejected read or
\* of a failed download, and returns the stored objects of the record
ResumedResolves ==
    ResumedAfterFulfilment =>
        /\ ~Pending
        /\ app.pc # "setTimeout"
        /\ app.polls <= 1
        /\ ~TimedOut
        /\ app.pc = "thrown" => (app.outcome = RpcError \/ DownloadError)
        /\ ReturnsStoredObjects

TokenParts == split(tee.token.value, ".")

\* the header of the token lacks the kid or the alg
HeaderLacksKidOrAlg ==
    LET header == parseHeader(TokenParts[1])
    IN  /\ header.type = "object"
        /\ (header.kid.type = "undefined" \/ header.alg.type = "undefined")

\* parseAndVerifyJWT was called with a token of other than three segments
NotThreeSegments ==
    /\ tee.pc # "idle"
    /\ typeof(tee.token) = "string"
    /\ Len(TokenParts) # 3

\* parseAndVerifyJWT was called with a token of three segments whose header
\* lacks the kid or the alg
ThreeSegmentsLackingKidOrAlg ==
    /\ tee.pc # "idle"
    /\ typeof(tee.token) = "string"
    /\ Len(TokenParts) = 3
    /\ HeaderLacksKidOrAlg

\* the call has ended as a malformed token: no key set was requested, and
\* what it returns is the failure of the outer catch block, without a
\* header, not valid, with a message
FailedAsMalformed ==
    /\ tee.fetches = 0
    /\ tee.pc = "returned"
    /\ tee.outcome.header.type = "undefined"
    /\ tee.outcome.signatureValid = FALSE
    /\ tee.outcome.error.type = "string"
    /\ tee.outcome.error.value # <<>>

\* C22: a token that does not consist of exactly three segments, or whose
\* header lacks the kid or the alg, fails as malformed before any request for
\* the key set is made.
C22_MalformedBeforeKeySet ==
    (NotThreeSegments \/ ThreeSegmentsLackingKidOrAlg) => FailedAsMalformed

\* tokens of fewer than three segments, tokens with an empty segment among
\* the first three, and tokens of three segments whose header lacks the kid
\* or the alg fail as malformed before any request for the key set
FewerSegmentsOrLackingFail ==
    (\/ (NotThreeSegments /\ Len(TokenParts) < 3)
     \/ (tee.pc # "idle" /\ typeof(tee.token) = "string" /\ Len(TokenParts) >= 3
         /\ \E i \in 1 .. 3 : TokenParts[i] = <<>>)
     \/ ThreeSegmentsLackingKidOrAlg) => FailedAsMalformed

\* a token of four segments has its key set requested
FourSegmentsFetched ==
    /\ NotThreeSegments
    /\ tee.token = Str(<<"A", ".", "P", ".", "S", ".", "S">>)
    /\ tee.pc = "getJWKFromJWKS"
    /\ tee.fetches = 1

\* the key set was fetched and holds no key with the kid of the header
KeyUnknown ==
    /\ tee.response.settled = "resolved"
    /\ tee.response.status = 200
    /\ find(tee.response.keys, tee.header.kid).type = "undefined"

\* the key of the fetched key set that the kid of the header selects
SelectedKey == find(tee.response.keys, tee.header.kid)

\* the signature segment of the token is the one that the selected key makes
\* for its header and payload
SignedBySelectedKey ==
    /\ Len(TokenParts) = 3
    /\ tee.response.settled = "resolved"
    /\ tee.response.status = 200
    /\ SelectedKey.type = "object"
    /\ TokenParts[3] = sign(SelectedKey.material, TokenParts[1], TokenParts[2])

\* jwtVerify was reached: the key was found and imported and the payload was
\* parsed
VerifyReached ==
    /\ tee.pc = "returned"
    /\ tee.jwk.type = "object"
    /\ importJWK(tee.jwk, tee.header.alg).type = "key"
    /\ parsePayload(TokenParts[2]).type = "object"

\* the key set is requested at most once
NotRetried == tee.fetches <= 1

\* a signature that does not verify is returned with the header, not valid,
\* and with a message
RejectionIsReturned ==
    (VerifyReached /\ ~SignedBySelectedKey) =>
        /\ tee.outcome.header = tee.header
        /\ tee.outcome.header.type = "object"
        /\ tee.outcome.signatureValid = FALSE
        /\ tee.outcome.error.type = "string"
        /\ tee.outcome.error.value # <<>>

\* signatureValid is true only when the signature verified against the key
\* that the kid of the header selects
ValidOnlyIfVerified ==
    (tee.pc = "returned" /\ tee.outcome.signatureValid) =>
        /\ SignedBySelectedKey
        /\ tee.jwk = SelectedKey
        /\ tee.outcome.header = tee.header

\* C23: a kid that the fetched key set does not hold is a hard failure: it is
\* not retried and the call does not return a result for it; a signature
\* that does not verify is returned with the header, signatureValid false and
\* a message; signatureValid is true only when the signature verified
\* against the key that the kid selects.
C23_OutcomesDistinguished ==
    /\ NotRetried
    /\ KeyUnknown => tee.pc # "returned"
    /\ RejectionIsReturned
    /\ ValidOnlyIfVerified

\* the unknown kid ends as a returned value with signatureValid false
UnknownKeyReturned ==
    /\ KeyUnknown
    /\ tee.pc = "returned"
    /\ tee.outcome.signatureValid = FALSE
    /\ tee.outcome.error = Str(<<"JWK with kid ", "k", "9", " not found">>)

\* the parts of the claim that hold
OutcomesButUnknownKey == NotRetried /\ RejectionIsReturned /\ ValidOnlyIfVerified

\* a token signed by the key that its kid selects is returned as valid
ValidReturned ==
    /\ tee.pc = "returned"
    /\ tee.outcome.signatureValid
    /\ tee.token = Str(<<"A", ".", "P", ".", "S">>)

\* a token signed by a key of the set other than the one its kid selects is
\* returned as not valid
OtherKeyRejected ==
    /\ tee.pc = "returned"
    /\ tee.token = Str(<<"A", ".", "P", ".", "T">>)
    /\ Len(tee.response.keys) = 2
    /\ tee.jwk = Jwk(<<"k", "1">>, "m1")
    /\ tee.outcome.signatureValid = FALSE
    /\ tee.outcome.header.type = "object"

\* the run a has a receipt with a CallRequested event
Submitted(a) == a.receipt.mined /\ EventsNamed(a.receipt.logs, "CallRequested") # <<>>

\* the id of the CallRequested event in the receipt of the run a
OwnId(a) == EventsNamed(a.receipt.logs, "CallRequested")[1].requestId

\* the run a is in the loop of waitForInferenceResult, or has been
HasPolled(a) ==
    \/ a.pc \in {"getRequestDetails", "setTimeout", "getResult", "getReport", "returned"}
    \/ a.polls > 0

\* the ids of the CallRequested events are all different, and so are the ids
\* of the two runs
DistinctIds ==
    /\ \A i, j \in 1 .. Len(requestedLog) :
          i # j => requestedLog[i].requestId # requestedLog[j].requestId
    /\ (Submitted(app) /\ Submitted(peer)) => OwnId(app) # OwnId(peer)

\* the run a polls the id of the event of its own receipt, and the record of
\* that id is the one it submitted
PollsOwnId(a) ==
    HasPolled(a) =>
        /\ Submitted(a)
        /\ a.requestId = BigInt(OwnId(a))
        /\ OwnId(a) \in 1 .. requestCounter
        /\ calls[OwnId(a)].caller = Wallet
        /\ calls[OwnId(a)].model = a.model
        /\ hexlify(calls[OwnId(a)].promptHash) = a.promptHash

\* the run a downloads and returns the hashes of the record of its own id
\* and the objects that are stored under them
ReturnsOwnResult(a) ==
    /\ a.pc \in {"getResult", "getReport", "returned"} =>
          /\ a.details.resultHash = hexlify(calls[OwnId(a)].resultHash)
          /\ a.details.reportHash = hexlify(calls[OwnId(a)].reportHash)
    /\ a.pc \in {"getReport", "returned"} =>
          a.result = Str(ObjectUnder(calls[OwnId(a)].resultHash))
    /\ a.pc = "returned" =>
          /\ a.outcome.requestId = BigInt(OwnId(a))
          /\ a.outcome.resultHash = hexlify(calls[OwnId(a)].resultHash)
          /\ a.outcome.reportHash = hexlify(calls[OwnId(a)].reportHash)
          /\ a.outcome.result = Str(ObjectUnder(calls[OwnId(a)].resultHash))
          /\ a.outcome.report = Str(ObjectUnder(calls[OwnId(a)].reportHash))

\* C24: when two applications run execute against the same contract with
\* their steps interleaved, no two submissions get the same id, each
\* application polls the id of the event in its own receipt, and each one
\* that returns does so with the hashes of the record of its own id and with
\* the objects stored under them.
C24_ConcurrentRunsKeepTheirIds ==
    /\ DistinctIds
    /\ PollsOwnId(app)
    /\ PollsOwnId(peer)
    /\ ReturnsOwnResult(app)
    /\ ReturnsOwnResult(peer)

\* C24 witness: both applications have returned; the second one submitted
\* first, and the two records were fulfilled with different results.
C24_Witness ==
    /\ app.pc = "returned"
    /\ peer.pc = "returned"
    /\ app.requestId = BigInt(2)
    /\ peer.requestId = BigInt(1)
    /\ calls[1].resultHash # calls[2].resultHash
    /\ app.outcome.result # peer.outcome.result

\* exactly one of the hashes of record 1 is zero
HalfSet == (calls[1].resultHash = ZeroHash) # (calls[1].reportHash = ZeroHash)

\* the hashes that the poll has found are both set
FoundBoth ==
    /\ app.details.resultHash \notin {<<>>, EthersZeroHash}
    /\ app.details.reportHash \notin {<<>>, EthersZeroHash}

\* C25: while the record has one hash set and the other zero, the poll
\* treats the request as pending: it has found nothing, downloads nothing
\* and returns nothing, and it ends only by the timeout or by the error of a
\* rejected read; a poll that downloads or returns has found both hashes
\* set.
C25_HalfSetIsPending ==
    /\ HalfSet =>
          /\ app.pc \notin {"getResult", "getReport", "returned"}
          /\ minio = NoCall
          /\ app.details = NoRun.details
          /\ app.pc = "thrown" =>
                (app.outcome = TimeoutError(app.maxWaitTime) \/ app.outcome = RpcError)
    /\ (app.pc \in {"getResult", "getReport", "returned"} \/ minio # NoCall) =>
          (FoundBoth /\ ~HalfSet /\ ~Pending)

\* C25 witness: the record holds a resultHash and no reportHash, and the
\* poll has read it twice and waits for its next read.
C25_Witness ==
    /\ calls[1].resultHash = "0x11"
    /\ calls[1].reportHash = ZeroHash
    /\ now >= 2 * Second
    /\ app.pc = "setTimeout"
    /\ app.polls >= 2
    /\ minio = NoCall

\* the record holds a reportHash and no resultHash, and the poll has timed
\* out
HalfSetTimesOut ==
    /\ calls[1].resultHash = ZeroHash
    /\ calls[1].reportHash = "0x11"
    /\ TimedOut

\* the record was completed after it held a reportHash only, and the poll
\* has returned
CompletedAfterHalf ==
    /\ app.pc = "returned"
    /\ app.polls >= 2

\* the inference node fulfils the request before the maxWaitTime of the
\* running call is over
FulfilledInTime ==
    /\ app.pc # "idle"
    /\ relayer.due
    /\ relayer.at < app.startTime + app.maxWaitTime

\* C26: a call of waitForInferenceResult on a request that is fulfilled
\* strictly before its maxWaitTime is over does not end with the timeout
\* error, whatever the checkInterval and the moment of the fulfilment.
C26_FulfilledInTimeResolves == FulfilledInTime => ~TimedOut

\* the call has timed out although the record was fulfilled a second before
\* its maxWaitTime was over: the fulfilment came after the last read
TimedOutAlthoughFulfilled ==
    /\ FulfilledInTime
    /\ ~Pending
    /\ relayer = At(2 * Second)
    /\ app.startTime = 0
    /\ app.maxWaitTime = 3 * Second
    /\ app.checkInterval = 2 * Second
    /\ app.polls = 2
    /\ TimedOut

\* a call times out only when its last read was not later than the
\* fulfilment
TimesOutOnlyIfLastReadPending ==
    (FulfilledInTime /\ TimedOut) => (app.polls > 0 /\ app.since <= relayer.at)

\* the call has returned the result of a request that was fulfilled in time
ResolvedInTime ==
    /\ FulfilledInTime
    /\ app.pc = "returned"
    /\ app.polls >= 2

\* the ids whose record has no resultHash
PendingIds == {id \in 1 .. requestCounter : calls[id].resultHash = ZeroHash}

\* a submitResult on id with the hashes r and p and with outcome x, if it
\* succeeded, wrote the two hashes into the record of id and nothing else,
\* and emitted one CallFinished
FulfilsOnlyItsRecord(x, id, r, p) ==
    x.status = Ok =>
        /\ x.storage.calls[id].resultHash = r
        /\ x.storage.calls[id].reportHash = p
        /\ x.storage.calls[id].caller = calls[id].caller
        /\ x.storage.calls[id].model = calls[id].model
        /\ x.storage.calls[id].promptHash = calls[id].promptHash
        /\ \A other \in RequestIds \ {id} : x.storage.calls[other] = calls[other]
        /\ x.storage.requestCounter = requestCounter
        /\ x.storage.models = models
        /\ x.storage.modelList = modelList
        /\ x.storage.owner = owner
        /\ x.storage.inferenceNode = inferenceNode
        /\ x.logs = <<CallFinished(id, r, p)>>

\* two pending ids can be fulfilled by the inference node in either order,
\* with the same storage in the end
EitherOrder(i, j) ==
    \A ri \in Hashes, pi \in Hashes, rj \in Hashes, pj \in Hashes :
        LET first == submitResult(Storage, inferenceNode, i, ri, pi)
            both == submitResult(first.storage, inferenceNode, j, rj, pj)
            second == submitResult(Storage, inferenceNode, j, rj, pj)
            reverse == submitResult(second.storage, inferenceNode, i, ri, pi)
        IN  /\ first.status = Ok
            /\ both.status = Ok
            /\ second.status = Ok
            /\ reverse.status = Ok
            /\ both.storage = reverse.storage

\* C27: a submitResult that succeeds on an id changes the resultHash and the
\* reportHash of that id's record and nothing else (not its caller, model or
\* promptHash, no other record, not the counter, the models, the owner or the
\* inference node), and the inference node can fulfil each pending id
\* whatever the other ids are, so pending ids in any order.
C27_FulfilmentsIndependent ==
    /\ \A sender \in Accounts, id \in RequestIds, r \in Hashes, p \in Hashes :
          FulfilsOnlyItsRecord(submitResult(Storage, sender, id, r, p), id, r, p)
    /\ \A id \in PendingIds : Fulfillable(Storage, id)
    /\ \A i \in PendingIds, j \in PendingIds : i # j => EitherOrder(i, j)

\* C27 witness: the second request was fulfilled while the first one is still
\* pending, and the first one can be fulfilled.
C27_Witness ==
    /\ requestCounter = 2
    /\ calls[2].resultHash # ZeroHash
    /\ calls[1].resultHash = ZeroHash
    /\ calls[1].reportHash = ZeroHash
    /\ submitResult(Storage, inferenceNode, 1, "0x11", "0x11").status = Ok

\* how often the name occurs in the listing
Occurrences(list, name) == Cardinality({i \in 1 .. Len(list) : list[i] = name})

\* the storage T is the storage S with the listed model m removed: the
\* listing is one entry shorter and is a permutation of the listing of S
\* without m, the flag of m is cleared, and the flags of the other models
\* are those of S
RemovedOne(S, T, m) ==
    /\ Len(T.modelList) = Len(S.modelList) - 1
    /\ \A name \in ModelNames :
          Occurrences(T.modelList, name) =
              Occurrences(S.modelList, name) - (IF name = m THEN 1 ELSE 0)
    /\ Occurrences(T.modelList, m) = 0
    /\ ~T.models[m]
    /\ \A name \in ModelNames \ {m} : T.models[name] = S.models[name]

\* the outcome of delModels, sent by the owner, of the first k elements of
\* the batch
delModelsUpTo(batch, k) == delModels(Storage, owner, SubSeq(batch, 1, k))

\* every element of the batch that is listed when its turn comes is removed
\* as by delModel, and every other element changes nothing
EachEffectiveElementRemovesOne(batch) ==
    \A k \in 1 .. Len(batch) :
        LET before == delModelsUpTo(batch, k - 1).storage
            after == delModelsUpTo(batch, k).storage
        IN  IF before.models[batch[k]] THEN RemovedOne(before, after, batch[k])
            ELSE after = before

\* C28: the delModel of a listed model, and each element of a delModels that
\* is listed when its turn comes, shortens the listing by one entry and
\* leaves a permutation of the former listing without that model, also when
\* the model is the last or the only entry; the flags of the other models do
\* not change.
C28_RemovalShortensByOne ==
    /\ \A m \in Listed :
          LET r == delModel(Storage, owner, m)
          IN  r.status = Ok /\ RemovedOne(Storage, r.storage, m)
    /\ (modelList # <<>> /\ models[modelList[Len(modelList)]]) =>
          delModel(Storage, owner, modelList[Len(modelList)]).storage.modelList =
              SubSeq(modelList, 1, Len(modelList) - 1)
    /\ \A batch \in Batches(ModelNames) : EachEffectiveElementRemovesOne(batch)

\* C28 witness: three models are listed; a delModels of the third and the
\* second removes the last entry twice, a delModel of the first then
\* removes the only entry, and a delModel of the first in the current state
\* moves the third into its slot.
C28_Witness ==
    /\ Len(modelList) = 3
    /\ \A i \in 1 .. 3 : models[modelList[i]]
    /\ LET batch == <<modelList[3], modelList[2]>>
       IN  /\ delModelsUpTo(batch, 1).storage.modelList = <<modelList[1], modelList[2]>>
           /\ delModelsUpTo(batch, 2).storage.modelList = <<modelList[1]>>
           /\ delModel(delModelsUpTo(batch, 2).storage, owner, modelList[1]).storage.modelList
                  = <<>>
    /\ delModel(Storage, owner, modelList[1]).storage.modelList =
           <<modelList[3], modelList[2]>>

\* the run has read models(model) as true and is about to send requestCall,
\* and the model is no longer whitelisted
RemovedSinceRead ==
    /\ app.pc = "requestCall"
    /\ isBytes32(app.promptHash)
    /\ ~models[app.model]

\* the requestCall of such a run is rejected as unsupported, stores nothing,
\* consumes no id and emits nothing, and the run throws without polling
RaceRejected ==
    RemovedSinceRead =>
        LET r == requestCall(Storage, Wallet, app.model, toBytes32(app.promptHash))
            b == onMined(app, r, now)
        IN  /\ r.status = ErrModelUnsupported
            /\ r.storage = Storage
            /\ r.logs = <<>>
            /\ b.pc = "thrown"
            /\ b.outcome = CallException(ErrModelUnsupported)
            /\ b.polls = 0
            /\ ~b.receipt.mined

\* the run's requestCall was rejected as unsupported
SubmitRejected ==
    /\ app.pc = "thrown"
    /\ app.outcome = CallException(ErrModelUnsupported)

\* a run whose requestCall was rejected has stored no record, consumed no id
\* and made no poll
RejectedSubmitLeavesNothing ==
    SubmitRejected =>
        /\ requestCounter = 0
        /\ calls[1] = EmptyCall
        /\ requestedLog = <<>>
        /\ ~app.receipt.mined
        /\ app.polls = 0

\* a step that creates a record creates the one of the next id, for a model
\* that is whitelisted in the state of the step
RecordsOnlyForListed ==
    [][requestCounter' # requestCounter =>
          /\ requestCounter' = requestCounter + 1
          /\ models[calls'[requestCounter'].model]
          /\ models'[calls'[requestCounter'].model]]_vars

\* C29: when the owner removes the model between the run's read of
\* models(model) and its requestCall transaction, the transaction is
\* rejected, no record is created and no id is consumed, and the run ends by
\* throwing without a poll; no interleaving of the owner's edits with the
\* run creates a record for a model that is not whitelisted when the
\* transaction is mined.
C29_RemovalBeforeSubmitRejects ==
    /\ [](RaceRejected /\ RejectedSubmitLeavesNothing)
    /\ RecordsOnlyForListed

\* C29 witness: the model COA was removed after the run had read it as
\* supported, and the run has thrown the revert of its requestCall.
C29_Witness ==
    /\ SubmitRejected
    /\ app.model = "COA"
    /\ ~models["COA"]
    /\ app.objectKey = Str(<<"1", "1">>)
    /\ requestCounter = 0
    /\ app.polls = 0

====
